---- MODULE Spec2Model ----
(***************************************************************************)
(* Model of the two analysis endpoints of the warehouse KPI dashboard:     *)
(*   POST /api/upload           src/src/app/api/upload/route.ts            *)
(*   GET  /api/analyze-default  src/src/app/api/analyze-default/route.ts   *)
(*                                                                         *)
(* Strings the code takes apart (names, keys, file names) are sequences of *)
(* one-character strings.  A timestamp "HH:MM:SS.mmm" is the record of its *)
(* four fixed-width numeric fields; the lexicographic order of the strings *)
(* is the lexicographic order of <<h, m, s, ms>>.                          *)
(*                                                                         *)
(* A double d that parseTimeToMinutes returns is carried as the pair       *)
(*   sec : the whole seconds since midnight (d is about sec/60 minutes)    *)
(*   err : the rounding error of the two floating-point operations, in     *)
(*         units of 2^-58/60 minutes, so that d = sec/60 + err * 2^-58/60  *)
(* exactly.  Hours and rates are carried in hundredths, as reported after  *)
(* Math.round(x * 100) / 100.                                              *)
(*                                                                         *)
(* The decoded file content is carried as the result Papa.parse gives on   *)
(* its cleaned lines (header fields, data rows, reported errors); the      *)
(* handlers are followed statement by statement from there.  upload_time   *)
(* (the clock reading of the response) is left out.                        *)
(***************************************************************************)
EXTENDS Integers, Sequences, FiniteSets, TLC

\* Longest list of data rows of an analysed file.
MaxRows == 3
\* Longest list of data rows under a header that lacks a name or id column.
MaxRowsBadHeader == 1

---------------------------------------------------------------------------
(* Generic helpers                                                         *)

\* The sequences over S of length at most n.
SeqsUpTo(S, n) == UNION {[1..k -> S] : k \in 0..n}

Range(q) == {q[i] : i \in 1..Len(q)}

---------------------------------------------------------------------------
(* IEEE-754 double arithmetic of parseTimeToMinutes                        *)

Pow2(n) == 2 ^ n

\* (x * 2^n) mod m for m < 2^24, seven doublings at a time.
RECURSIVE DoubleMod(_, _, _)
DoubleMod(x, n, m) ==
  IF n = 0 THEN x % m
  ELSE IF n < 7 THEN ((x % m) * Pow2(n)) % m
  ELSE DoubleMod(((x % m) * 128) % m, n - 7, m)

\* floor(log2(M)) for M >= 1.
RECURSIVE ILog2(_)
ILog2(M) == IF M < 2 THEN 0 ELSE 1 + ILog2(M \div 2)

\* -e, where 2^e <= s/60 < 2^(e+1), for 1 <= s <= 59.
RECURSIVE NegExp(_, _)
NegExp(s, ne) == IF s * Pow2(ne) >= 60 THEN ne ELSE NegExp(s, ne + 1)

\* Rounding error of  fl(M + fl(s / 60))  against M + s/60, in units of
\* 2^-58/60.  fl(s/60) keeps 53 significant bits (round to nearest); the
\* addition then rounds to the spacing of doubles in the binade of M
\* (round to nearest, ties to even).
FloatErr(M, s) ==
  IF s = 0 THEN 0
  ELSE
    LET ne   == NegExp(s, 1)
        n0   == 52 + ne
        k    == ILog2(M)
        d    == k + ne
        X    == DoubleMod(s, n0, 60 * Pow2(d + 1))
        r    == X % 60
        up   == IF r > 30 THEN 1 ELSE 0
        c    == IF r > 30 THEN 60 - r ELSE 0 - r
        G    == ((X \div 60) + up) % Pow2(d + 1)
        low  == G % Pow2(d)
        bit  == G \div Pow2(d)
        half == Pow2(d - 1)
        e1   == IF low > half \/ (low = half /\ bit = 1) THEN Pow2(d) - low ELSE 0 - low
    IN  IF M = 0 THEN c * Pow2(6 - ne)
        ELSE (c + 60 * e1) * Pow2(6 - ne)

\* 2^-49 (half the spacing of doubles at 30) in units of 2^-58/60.
HalfUlpAt30 == 30720

parseTimeToMinutes(timeStr) ==
  [sec |-> timeStr.h * 3600 + timeStr.m * 60 + timeStr.s,
   err |-> FloatErr(timeStr.h * 60 + timeStr.m, timeStr.s)]

\* currentTime - prevTime > 30.  The exact difference of the two doubles is
\* (dsec - 1800)/60 + derr * 2^-58/60 above 30; |derr| is far below one
\* second, and the subtraction rounds to the nearest double (30 on a tie).
TimeDiffExceeds30(prevTime, currentTime) ==
  LET dsec == currentTime.sec - prevTime.sec
      derr == currentTime.err - prevTime.err
  IN  IF dsec # 1800 THEN dsec > 1800 ELSE derr > HalfUlpAt30

---------------------------------------------------------------------------
(* Input data                                                              *)

T_000204 == [h |-> 0, m |-> 2,  s |-> 4,  ms |-> 0]
T_000214 == [h |-> 0, m |-> 2,  s |-> 14, ms |-> 500]
T_003204 == [h |-> 0, m |-> 32, s |-> 4,  ms |-> 0]
T_003214 == [h |-> 0, m |-> 32, s |-> 14, ms |-> 999]
NoTime   == [h |-> 0, m |-> 0,  s |-> 0,  ms |-> 0]

\* TimeEntered values of the analysed rows.
Times == {T_000204, T_000214, T_003204, T_003214}

\* firstname / lastname values of the analysed rows (trimmed field values).
Persons ==
  { [firstname |-> <<"a", "_", "b">>, lastname |-> <<"c">>],
    [firstname |-> <<"a">>,           lastname |-> <<"b", "_", "c">>],
    [firstname |-> <<"a">>,           lastname |-> <<"c">>] }

\* The value a row has for a column its header does not hold.
Absent == <<"undefined">>

UploadRequiredColumns  == <<"firstname", "lastname", "BarcodeRangeID", "TimeEntered">>
DefaultRequiredColumns == <<"firstname", "lastname", "BarcodeRangeID">>

\* Headers, as the set of required columns they hold.
Headers == SUBSET Range(UploadRequiredColumns)

\* The rows Papa.parse builds under header H: one key per header column.
RowsFor(H) ==
  { [firstname   |-> IF "firstname" \in H THEN p.firstname ELSE Absent,
     lastname    |-> IF "lastname" \in H THEN p.lastname ELSE Absent,
     TimeEntered |-> IF "TimeEntered" \in H THEN t ELSE NoTime] :
       p \in Persons, t \in Times }

NamedHeader(H) == {"firstname", "lastname", "BarcodeRangeID"} \subseteq H

\* Results of Papa.parse(cleanedContent, {header: true, ...}): the header
\* fields, the data rows, and the errors the parser reports (a row whose
\* field count differs from the header's is kept in data and reported).
ParseResults ==
  UNION { [fields : {H},
           data   : SeqsUpTo(RowsFor(H),
                             IF NamedHeader(H) THEN MaxRows ELSE MaxRowsBadHeader),
           errors : {<<>>}] :
          H \in Headers }
  \cup
  UNION { { [fields |-> H, data |-> <<row>>, errors |-> <<"Too few fields">>] :
              row \in RowsFor(H) } :
          H \in {Range(UploadRequiredColumns),
                 Range(UploadRequiredColumns) \ {"lastname"}} }

\* Names of the uploaded file.
UploadNames ==
  { <<"a", ".", "c", "s", "v">>,
    <<"A", ".", "C", "s", "V">>,
    <<"r", ".", "t", "x", "t">>,
    <<"c", "s", "v">> }

Taskmaster == <<"T", "a", "s", "k", "m", "a", "s", "t", "e", "r", ".", "c", "s", "v">>
UploadedFile ==
  <<"u", "p", "l", "o", "a", "d", "e", "d", "_", "f", "i", "l", "e", ".", "c", "s", "v">>

---------------------------------------------------------------------------
(* calculateWorkPeriods                                                    *)

\* Order of two timestamp strings under Array.prototype.sort().
TimeStrLE(a, b) ==
  \/ a.h < b.h
  \/ a.h = b.h /\ a.m < b.m
  \/ a.h = b.h /\ a.m = b.m /\ a.s < b.s
  \/ a.h = b.h /\ a.m = b.m /\ a.s = b.s /\ a.ms <= b.ms

\* Insert x behind every element that is not after it (stable).
RECURSIVE InsertTime(_, _)
InsertTime(sorted, x) ==
  IF sorted = <<>> THEN <<x>>
  ELSE IF TimeStrLE(sorted[Len(sorted)], x) THEN Append(sorted, x)
  ELSE Append(InsertTime(SubSeq(sorted, 1, Len(sorted) - 1), x), sorted[Len(sorted)])

RECURSIVE SortTimes(_)
SortTimes(q) ==
  IF q = <<>> THEN <<>> ELSE InsertTime(SortTimes(SubSeq(q, 1, Len(q) - 1)), q[Len(q)])

\* (endMinutes - startMinutes) / 60, kept as whole seconds: both ends go
\* through parseTimeToMinutes, whose error is far below half a second.
DurationOf(period) ==
  parseTimeToMinutes(period.end_time).sec - parseTimeToMinutes(period.start_time).sec

ClosePeriod(period) == [period EXCEPT !.duration_sec = DurationOf(period)]

NewPeriod(t) ==
  [start_time |-> t, end_time |-> t, duration_sec |-> 0, barcode_count |-> 1]

\* The loop of calculateWorkPeriods from index i, and the final push.
RECURSIVE WalkTimes(_, _, _, _)
WalkTimes(sortedTimes, i, periods, currentPeriod) ==
  IF i > Len(sortedTimes) THEN Append(periods, ClosePeriod(currentPeriod))
  ELSE
    LET prevTime    == parseTimeToMinutes(sortedTimes[i - 1])
        currentTime == parseTimeToMinutes(sortedTimes[i])
    IN  IF TimeDiffExceeds30(prevTime, currentTime)
        THEN WalkTimes(sortedTimes, i + 1,
                       Append(periods, ClosePeriod(currentPeriod)),
                       NewPeriod(sortedTimes[i]))
        ELSE WalkTimes(sortedTimes, i + 1, periods,
                       [currentPeriod EXCEPT !.end_time = sortedTimes[i],
                                             !.barcode_count = @ + 1])

calculateWorkPeriods(timeEntries) ==
  IF Len(timeEntries) = 0 THEN <<>>
  ELSE LET sortedTimes == SortTimes(timeEntries)
       IN  WalkTimes(sortedTimes, 2, <<>>, NewPeriod(sortedTimes[1]))

---------------------------------------------------------------------------
(* Results                                                                 *)

NoError == [prefix |-> "", detail |-> <<>>]
NoData  ==
  [people_data |-> <<>>,
   statistics  |-> [total_people |-> 0, total_ranges |-> 0,
                    average_ranges_per_person |-> 0],
   filename    |-> <<>>]

\* {success: false, error}: keys is the set of keys the object holds.
Failure(prefix, detail) ==
  [success |-> FALSE, keys |-> {"success", "error"}, data |-> NoData,
   error |-> [prefix |-> prefix, detail |-> detail]]

\* {success: true, data}.
Success(data) ==
  [success |-> TRUE, keys |-> {"success", "data"}, data |-> data, error |-> NoError]

\* No exception.
NoThrow == "none"

\* Math.round(num / den * 100), for num >= 0 and den > 0: the value the
\* code reports, in hundredths (Math.round rounds a half upwards).
RoundHundredths(num, den) == (200 * num + den) \div (2 * den)

---------------------------------------------------------------------------
(* analyzeBarcodes: validation, grouping, ordering and statistics          *)

\* requiredColumns.filter(col => !data[0] || !(col in data[0]))
MissingFromHeader(requiredColumns, parseResult) ==
  SelectSeq(requiredColumns, LAMBDA col : col \notin parseResult.fields)
MissingColumns(requiredColumns, parseResult) ==
  SelectSeq(requiredColumns,
            LAMBDA col : Len(parseResult.data) = 0 \/ col \notin parseResult.fields)

\* `${row.firstname}_${row.lastname}`
PersonKey(firstname, lastname) == firstname \o <<"_">> \o lastname

\* Index of the entry with this key in an insertion-ordered Map, 0 if none.
RECURSIVE MapIndex(_, _, _)
MapIndex(map, key, i) ==
  IF i > Len(map) THEN 0
  ELSE IF map[i].key = key THEN i
  ELSE MapIndex(map, key, i + 1)

\* One step of data.forEach in the upload route.
UploadGroupRow(personDataMap, row) ==
  LET key   == PersonKey(row.firstname, row.lastname)
      found == MapIndex(personDataMap, key, 1)
      map   == IF found = 0
               THEN Append(personDataMap,
                           [key |-> key, firstname |-> row.firstname,
                            lastname |-> row.lastname, timeEntries |-> <<>>,
                            barcodeCount |-> 0])
               ELSE personDataMap
      at    == IF found = 0 THEN Len(map) ELSE found
  IN  [map EXCEPT ![at].timeEntries = Append(@, row.TimeEntered),
                  ![at].barcodeCount = @ + 1]

RECURSIVE UploadGroup(_, _, _)
UploadGroup(data, i, personDataMap) ==
  IF i > Len(data) THEN personDataMap
  ELSE UploadGroup(data, i + 1, UploadGroupRow(personDataMap, data[i]))

\* One step of data.forEach in the default route.
DefaultGroupRow(personCounts, row) ==
  LET key   == PersonKey(row.firstname, row.lastname)
      found == MapIndex(personCounts, key, 1)
  IN  IF found = 0 THEN Append(personCounts, [key |-> key, count |-> 1])
      ELSE [personCounts EXCEPT ![found].count = @ + 1]

RECURSIVE DefaultGroup(_, _, _)
DefaultGroup(data, i, personCounts) ==
  IF i > Len(data) THEN personCounts
  ELSE DefaultGroup(data, i + 1, DefaultGroupRow(personCounts, data[i]))

\* key.split('_')
RECURSIVE SplitUnderscore(_, _, _)
SplitUnderscore(key, i, current) ==
  IF i > Len(key) THEN <<current>>
  ELSE IF key[i] = "_" THEN <<current>> \o SplitUnderscore(key, i + 1, <<>>)
  ELSE SplitUnderscore(key, i + 1, Append(current, key[i]))

\* const [firstname, lastname] = key.split('_')
DefaultPerson(entry) ==
  LET parts == SplitUnderscore(entry.key, 1, <<>>)
  IN  [firstname |-> parts[1],
       lastname |-> IF Len(parts) >= 2 THEN parts[2] ELSE Absent,
       barcode_range_count |-> entry.count]

RECURSIVE SumDurations(_, _)
SumDurations(workPeriods, i) ==
  IF i > Len(workPeriods) THEN 0
  ELSE workPeriods[i].duration_sec + SumDurations(workPeriods, i + 1)

\* The map callback of the upload route; hours and rate in hundredths.
UploadPerson(person) ==
  LET workPeriods      == calculateWorkPeriods(person.timeEntries)
      totalSecondsWorked == SumDurations(workPeriods, 1)
  IN  [firstname |-> person.firstname,
       lastname |-> person.lastname,
       barcode_range_count |-> person.barcodeCount,
       total_hours_worked |-> RoundHundredths(totalSecondsWorked, 3600),
       barcodes_per_hour |->
         IF totalSecondsWorked > 0
         THEN RoundHundredths(person.barcodeCount * 3600, totalSecondsWorked)
         ELSE 0,
       work_periods |-> workPeriods]

\* The comparator (a, b) => b.barcode_range_count - a.barcode_range_count
\* is not positive: a stays in front of b.
CompareAscending(a, b) == a.barcode_range_count <= b.barcode_range_count
CompareCountDesc(a, b) == b.barcode_range_count - a.barcode_range_count <= 0

\* Array.prototype.sort with that comparator (a stable sort).
InsertBeforeTies(sorted, x) ==
  LET k == Cardinality({i \in 1..Len(sorted) :
                          sorted[i].barcode_range_count > x.barcode_range_count})
  IN  SubSeq(sorted, 1, k) \o <<x>> \o SubSeq(sorted, k + 1, Len(sorted))
RECURSIVE InsertPerson(_, _)
InsertPerson(sorted, x) ==
  IF sorted = <<>> THEN <<x>>
  ELSE IF CompareCountDesc(sorted[Len(sorted)], x) THEN Append(sorted, x)
  ELSE Append(InsertPerson(SubSeq(sorted, 1, Len(sorted) - 1), x), sorted[Len(sorted)])

RECURSIVE SortPeople(_)
SortPeople(q) ==
  IF q = <<>> THEN <<>>
  ELSE InsertPerson(SortPeople(SubSeq(q, 1, Len(q) - 1)), q[Len(q)])

MapSeq(q, F(_)) == [i \in 1..Len(q) |-> F(q[i])]

\* peopleData.reduce((sum, person) => sum + person.barcode_range_count, 0)
PeopleOnlyTotal(peopleData, i) == Len(peopleData)
RECURSIVE TotalRanges(_, _)
TotalRanges(peopleData, i) ==
  IF i > Len(peopleData) THEN 0
  ELSE peopleData[i].barcode_range_count + TotalRanges(peopleData, i + 1)

Statistics(peopleData) ==
  LET totalPeople == Len(peopleData)
      totalRanges == TotalRanges(peopleData, 1)
  IN  [total_people |-> totalPeople,
       total_ranges |-> totalRanges,
       average_ranges_per_person |->
         IF totalPeople > 0 THEN RoundHundredths(totalRanges, totalPeople) ELSE 0]

\* The error of the missing-column return.
NameNoColumns(missingColumns) == Failure("Missing required columns: ", <<>>)
MissingColumnsFailure(missingColumns) ==
  Failure("Missing required columns: ", missingColumns)

\* analyzeBarcodes of the upload route, from the parser's result on;
\* thrown is the message of an exception raised inside its try block.
UploadAnalyzeBarcodes(parseResult, thrown) ==
  IF thrown # NoThrow THEN Failure("Error analyzing file: ", <<thrown>>)
  ELSE IF Len(parseResult.errors) > 0
  THEN Failure("CSV parsing error: ", <<parseResult.errors[1]>>)
  ELSE
    LET missingColumns == MissingColumns(UploadRequiredColumns, parseResult)
    IN  IF Len(missingColumns) > 0 THEN MissingColumnsFailure(missingColumns)
        ELSE
          LET personDataMap == UploadGroup(parseResult.data, 1, <<>>)
              peopleData    == SortPeople(MapSeq(personDataMap, UploadPerson))
          IN  Success([people_data |-> peopleData,
                       statistics  |-> Statistics(peopleData),
                       filename    |-> UploadedFile])

\* analyzeBarcodes of the default route.
DefaultAnalyzeBarcodes(parseResult, thrown) ==
  IF thrown # NoThrow THEN Failure("Error analyzing file: ", <<thrown>>)
  ELSE IF Len(parseResult.errors) > 0
  THEN Failure("CSV parsing error: ", <<parseResult.errors[1]>>)
  ELSE
    LET missingColumns == MissingColumns(DefaultRequiredColumns, parseResult)
    IN  IF Len(missingColumns) > 0 THEN MissingColumnsFailure(missingColumns)
        ELSE
          LET personCounts == DefaultGroup(parseResult.data, 1, <<>>)
              peopleData   == SortPeople(MapSeq(personCounts, DefaultPerson))
          IN  Success([people_data |-> peopleData,
                       statistics  |-> Statistics(peopleData),
                       filename    |-> Taskmaster])

---------------------------------------------------------------------------
(* The request handlers                                                    *)

VARIABLES
  endpoint,    \* "none", "upload" (POST /api/upload) or "default" (GET)
  pc,          \* position of the handler
  file,        \* upload: formData.get('file')
  exists,      \* default: fs.existsSync(defaultFilePath)
  csvContent,  \* the decoded content, as the parser's result on it
  raised,      \* where an exception was raised, "none" if nowhere
  did,         \* the steps the handler has performed for this request
  response     \* what the handler returned

serverVars == <<endpoint, pc, file, exists, csvContent, raised, did, response>>

\* The dashboard page (the KPI-aware view and the baseline view): its React
\* state, the requests it has sent, and the last response it has handled.
VARIABLES
  view,          \* "kpi" (the KPI-aware view) or "baseline"
  isLoading,     \* useState(false)
  error,         \* useState<string | null>(null)
  analysisData,  \* useState<AnalysisData | null>(null)
  kpiData,       \* useState(new Map()): personId -> KPIData
  showKpiForm,   \* useState(false)
  editingKpi,    \* useState<KPIData | null>(null)
  requests,      \* the requests sent so far: in flight with a kind, or settled
  lastResolved,  \* the response handled last
  kpiLog,        \* per person id: the last save or delete performed
  download       \* the file the last step handed to the browser, if any

clientVars == <<view, isLoading, error, analysisData, kpiData, showKpiForm,
                editingKpi, requests, lastResolved, kpiLog, download>>

\* The text pipeline both routes run on a file's bytes: detectEncoding, the
\* decoding, and the line cleaning at the head of analyzeBarcodes.
VARIABLES
  route,       \* the route whose copy of the code runs
  tpc,         \* position in the pipeline
  buffer,      \* the bytes of the file
  tried,       \* the candidate encodings the loop has decoded with
  encoding,    \* what detectEncoding returned
  decoded,     \* csvContent = buffer.toString(encoding), as code units
  cleaned      \* cleanedContent, the parser's input

textVars == <<route, tpc, buffer, tried, encoding, decoded, cleaned>>

\* The start script, run by cmd.exe.
VARIABLES
  spc,          \* position in the script
  nodeModules,  \* whether the directory node_modules exists
  npmKind,      \* what the command npm resolves to
  errorlevel,   \* cmd.exe's ERRORLEVEL
  expanded,     \* the text put for %errorlevel% when the if block was read
  returns,      \* whether control comes back to the script after the block
  installed,    \* the exit code of npm install, -1 if it has not run
  launched,     \* whether npm run dev was started
  exitCode      \* the exit code of the script, -1 while it runs

scriptVars == <<spc, nodeModules, npmKind, errorlevel, expanded, returns,
                installed, launched, exitCode>>

\* The deploy script, run by cmd.exe: what it keeps beside the console state
\* it shares with the start script (errorlevel, expanded, returns, installed,
\* exitCode and the command npm).
VARIABLES
  dpc,          \* position in the deploy script
  vercelKind,   \* what the command vercel resolves to
  deployed,     \* the exit code of vercel --prod, -1 if it has not run
  report        \* what the script printed about the deployment

deployVars == <<dpc, vercelKind, deployed, report>>

nonServerVars == <<clientVars, textVars, scriptVars, deployVars>>
nonClientVars == <<serverVars, textVars, scriptVars, deployVars>>
nonTextVars   == <<serverVars, clientVars, scriptVars, deployVars>>
nonScriptVars == <<serverVars, clientVars, textVars, deployVars>>
nonConsoleVars == <<serverVars, clientVars, textVars>>

vars == <<serverVars, clientVars, textVars, scriptVars, deployVars>>

NoFile    == [kind |-> "none", name |-> <<>>]
NoContent == [fields |-> {}, data |-> <<>>, errors |-> <<>>]
NoResponse == [kind |-> "none", body |-> Failure("", <<>>)]

\* Values of the form entry 'file': absent, a text field, or a File.
FormFiles ==
  {NoFile, [kind |-> "text", name |-> <<>>]}
  \cup {[kind |-> "file", name |-> n] : n \in UploadNames}

\* Messages of the exceptions the runtime raises.
Messages == {"boom"}
NameOfUndefined == "Cannot read properties of undefined (reading 'toLowerCase')"

Json(result) == [kind |-> "json", body |-> result]

ToLowerCaseChar(c) ==
  CASE c = "A" -> "a" [] c = "C" -> "c" [] c = "S" -> "s" [] c = "V" -> "v"
    [] OTHER -> c

toLowerCase(str) == [i \in 1..Len(str) |-> ToLowerCaseChar(str[i])]

endsWith(str, suffix) ==
  /\ Len(str) >= Len(suffix)
  /\ SubSeq(str, Len(str) - Len(suffix) + 1, Len(str)) = suffix

\* file.name.toLowerCase().endsWith('.csv')
AnyExtension(name) == TRUE
HasCsvExtension(name) == endsWith(toLowerCase(name), <<".", "c", "s", "v">>)

\* The catch block of POST.
UploadRethrow(message) == [kind |-> "exception", body |-> Failure("", <<message>>)]
UploadCatch(message) == Json(Failure("Upload failed: ", <<message>>))

\* The catch block of GET.
DefaultCatchAsAnalysis(message) == Json(Failure("Error analyzing file: ", <<message>>))
DefaultCatch(message) == Json(Failure("Error reading default file: ", <<message>>))

\* !fs.existsSync(defaultFilePath)
DefaultNeverMissing(fileExists) == FALSE
DefaultFileMissing(fileExists) == ~fileExists

NoAnalysis == [kind |-> "null"]
NoKpi      == [kind |-> "null"]
NoRequests == <<>>
NoDownload == [kind |-> "none"]
EmptyMap   == [k \in {} |-> NoKpi]
NothingResolved == [outcome |-> NoResponse, request |-> "none"]

\* The page as mounted, before any interaction.
ClientAtRest ==
  /\ isLoading = FALSE
  /\ error = NoError
  /\ analysisData = NoAnalysis
  /\ kpiData = EmptyMap
  /\ showKpiForm = FALSE
  /\ editingKpi = NoKpi
  /\ requests = NoRequests
  /\ lastResolved = NothingResolved
  /\ kpiLog = EmptyMap
  /\ download = NoDownload

\* The pipeline before a file is read.
TextAtRest ==
  /\ route = "none"
  /\ tpc = "idle"
  /\ buffer = <<>>
  /\ tried = <<>>
  /\ encoding = "none"
  /\ decoded = <<>>
  /\ cleaned = <<>>

\* The script not started.
ScriptAtRest ==
  /\ spc = "off"
  /\ nodeModules = FALSE
  /\ npmKind = "program"
  /\ errorlevel = 0
  /\ expanded = 0
  /\ returns = TRUE
  /\ installed = -1
  /\ launched = FALSE
  /\ exitCode = -1

DeployAtRest ==
  /\ dpc = "off"
  /\ vercelKind = "missing"
  /\ deployed = -1
  /\ report = "none"

ServerAtRest ==
  /\ endpoint = "none"
  /\ pc = "idle"
  /\ file = NoFile
  /\ exists = FALSE
  /\ csvContent = NoContent
  /\ raised = "none"
  /\ did = {}
  /\ response = NoResponse

Init ==
  /\ ServerAtRest
  /\ view = "kpi"
  /\ ClientAtRest
  /\ TextAtRest
  /\ ScriptAtRest
  /\ DeployAtRest

Respond(r) ==
  /\ response' = r
  /\ pc' = "done"

\* A POST arrives.
UploadRequest ==
  /\ pc = "idle"
  /\ \E f \in FormFiles : file' = f
  /\ endpoint' = "upload"
  /\ pc' = "formData"
  /\ UNCHANGED <<exists, csvContent, raised, did, response>>
  /\ UNCHANGED nonServerVars

\* await request.formData(); formData.get('file')
UploadFormData ==
  /\ endpoint = "upload" /\ pc = "formData"
  /\ pc' = "checkFile"
  /\ did' = did \cup {"formData"}
  /\ UNCHANGED <<endpoint, file, exists, csvContent, raised, response>>
  /\ UNCHANGED nonServerVars

\* request.formData() rejects (the body is not a form).
UploadFormDataThrows ==
  /\ endpoint = "upload" /\ pc = "formData"
  /\ \E msg \in Messages : Respond(UploadCatch(msg))
  /\ raised' = "formData"
  /\ did' = did \cup {"formData"}
  /\ UNCHANGED <<endpoint, file, exists, csvContent>>
  /\ UNCHANGED nonServerVars

\* if (!file)
UploadCheckFile ==
  /\ endpoint = "upload" /\ pc = "checkFile"
  /\ did' = did \cup {"checkFile"}
  /\ IF file.kind = "none"
     THEN Respond(Json(Failure("No file provided", <<>>)))
     ELSE pc' = "checkExtension" /\ UNCHANGED response
  /\ UNCHANGED <<endpoint, file, exists, csvContent, raised>>
  /\ UNCHANGED nonServerVars

\* if (!file.name.toLowerCase().endsWith('.csv')); a text entry has no name.
UploadCheckExtension ==
  /\ endpoint = "upload" /\ pc = "checkExtension"
  /\ did' = did \cup {"checkExtension"}
  /\ IF file.kind = "text"
     THEN Respond(UploadCatch(NameOfUndefined)) /\ raised' = "name"
     ELSE IF ~HasCsvExtension(file.name)
     THEN /\ Respond(Json(Failure("Invalid file type. Please upload a CSV file.", <<>>)))
          /\ UNCHANGED raised
     ELSE pc' = "read" /\ UNCHANGED <<response, raised>>
  /\ UNCHANGED <<endpoint, file, exists, csvContent>>
  /\ UNCHANGED nonServerVars

\* Buffer.from(await file.arrayBuffer()); detectEncoding; buffer.toString
UploadRead ==
  /\ endpoint = "upload" /\ pc = "read"
  /\ \E content \in ParseResults : csvContent' = content
  /\ did' = did \cup {"read", "decode"}
  /\ pc' = "analyze"
  /\ UNCHANGED <<endpoint, file, exists, raised, response>>
  /\ UNCHANGED nonServerVars

\* Reading or decoding the bytes raises.
UploadReadThrows ==
  /\ endpoint = "upload" /\ pc = "read"
  /\ \E site \in {"read", "decode"} :
       /\ raised' = site
       /\ did' = did \cup (IF site = "read" THEN {"read"} ELSE {"read", "decode"})
  /\ \E msg \in Messages : Respond(UploadCatch(msg))
  /\ UNCHANGED <<endpoint, file, exists, csvContent>>
  /\ UNCHANGED nonServerVars

\* analyzeBarcodes(csvContent); result.data.filename = file.name; respond.
UploadAnalyze ==
  /\ endpoint = "upload" /\ pc = "analyze"
  /\ \E thrown \in {NoThrow} \cup Messages :
       LET result == UploadAnalyzeBarcodes(csvContent, thrown)
       IN  /\ raised' = IF thrown = NoThrow THEN "none" ELSE "analyze"
           /\ Respond(Json(IF result.success
                           THEN [result EXCEPT !.data.filename = file.name]
                           ELSE result))
  /\ did' = did \cup {"analyze"}
  /\ UNCHANGED <<endpoint, file, exists, csvContent>>
  /\ UNCHANGED nonServerVars

\* A GET arrives; the bundled file is there or not.
DefaultRequest ==
  /\ pc = "idle"
  /\ \E e \in BOOLEAN : exists' = e
  /\ endpoint' = "default"
  /\ pc' = "exists"
  /\ UNCHANGED <<file, csvContent, raised, did, response>>
  /\ UNCHANGED nonServerVars

\* if (!fs.existsSync(defaultFilePath))
DefaultCheckExists ==
  /\ endpoint = "default" /\ pc = "exists"
  /\ did' = did \cup {"exists"}
  /\ IF DefaultFileMissing(exists)
     THEN Respond(Json(Failure("Default file not found", <<>>)))
     ELSE pc' = "read" /\ UNCHANGED response
  /\ UNCHANGED <<endpoint, file, exists, csvContent, raised>>
  /\ UNCHANGED nonServerVars

\* fs.readFileSync; detectEncoding; buffer.toString
DefaultRead ==
  /\ endpoint = "default" /\ pc = "read"
  /\ \E content \in ParseResults : csvContent' = content
  /\ did' = did \cup {"read", "decode"}
  /\ pc' = "analyze"
  /\ UNCHANGED <<endpoint, file, exists, raised, response>>
  /\ UNCHANGED nonServerVars

\* Reading or decoding the bundled file raises.
DefaultReadThrows ==
  /\ endpoint = "default" /\ pc = "read"
  /\ \E site \in {"read", "decode"} :
       /\ raised' = site
       /\ did' = did \cup (IF site = "read" THEN {"read"} ELSE {"read", "decode"})
  /\ \E msg \in Messages : Respond(DefaultCatch(msg))
  /\ UNCHANGED <<endpoint, file, exists, csvContent>>
  /\ UNCHANGED nonServerVars

\* analyzeBarcodes(csvContent); respond.
DefaultAnalyze ==
  /\ endpoint = "default" /\ pc = "analyze"
  /\ \E thrown \in {NoThrow} \cup Messages :
       /\ raised' = IF thrown = NoThrow THEN "none" ELSE "analyze"
       /\ Respond(Json(DefaultAnalyzeBarcodes(csvContent, thrown)))
  /\ did' = did \cup {"analyze"}
  /\ UNCHANGED <<endpoint, file, exists, csvContent>>
  /\ UNCHANGED nonServerVars

\* The response is sent; nothing of the request is kept.
Finish ==
  /\ pc = "done"
  /\ endpoint' = "none"
  /\ pc' = "idle"
  /\ file' = NoFile
  /\ exists' = FALSE
  /\ csvContent' = NoContent
  /\ raised' = "none"
  /\ did' = {}
  /\ response' = NoResponse
  /\ UNCHANGED nonServerVars

Next ==
  \/ UploadRequest
  \/ UploadFormData
  \/ UploadFormDataThrows
  \/ UploadCheckFile
  \/ UploadCheckExtension
  \/ UploadRead
  \/ UploadReadThrows
  \/ UploadAnalyze
  \/ DefaultRequest
  \/ DefaultCheckExists
  \/ DefaultRead
  \/ DefaultReadThrows
  \/ DefaultAnalyze
  \/ Finish

Spec == Init /\ [][Next]_vars

---------------------------------------------------------------------------
(* Properties                                                              *)

Done      == pc = "done"
Body      == response.body
Succeeded == Done /\ response.kind = "json" /\ Body.success
People    == Body.data.people_data
Stats     == Body.data.statistics
Rows      == csvContent.data

\* The request went through analyzeBarcodes without an exception.
Analysed == Done /\ "analyze" \in did /\ raised = "none"

RowsNamed(firstname, lastname) ==
  {j \in 1..Len(Rows) : Rows[j].firstname = firstname /\ Rows[j].lastname = lastname}

\* C1: on every successful analysis of either endpoint, each entry of
\* people_data has a barcode_range_count at least as large as the next one's.
C1_SortedDescending ==
  Succeeded =>
    \A i \in 1..(Len(People) - 1) :
      People[i].barcode_range_count >= People[i + 1].barcode_range_count

\* A success whose first row belongs to the person listed second, behind a
\* person with more rows: the sort has moved an entry.
C1_Witness ==
  /\ Succeeded
  /\ Len(People) >= 2
  /\ People[1].barcode_range_count > People[2].barcode_range_count
  /\ Rows[1].firstname = People[2].firstname
  /\ Rows[1].lastname = People[2].lastname

\* C2: on every successful analysis, people_data holds exactly one entry for
\* each distinct (firstname, lastname) pair of the parsed rows, total_people
\* is the number of those pairs, and each entry counts the rows that carry
\* exactly its firstname and lastname.
C2_OneEntryPerPerson ==
  Succeeded =>
    LET pairs == {<<Rows[j].firstname, Rows[j].lastname>> : j \in 1..Len(Rows)}
    IN  /\ Stats.total_people = Cardinality(pairs)
        /\ Len(People) = Cardinality(pairs)
        /\ \A pr \in pairs :
             Cardinality({i \in 1..Len(People) :
                            People[i].firstname = pr[1] /\ People[i].lastname = pr[2]}) = 1
        /\ \A i \in 1..Len(People) :
             People[i].barcode_range_count =
               Cardinality(RowsNamed(People[i].firstname, People[i].lastname))

\* C3: in every successful upload analysis, a person reported with
\* total_hours_worked 0 is reported with barcodes_per_hour 0.
C3_ZeroHoursZeroRate ==
  (Succeeded /\ endpoint = "upload") =>
    \A i \in 1..Len(People) :
      People[i].total_hours_worked = 0 => People[i].barcodes_per_hour = 0

\* Whole seconds since midnight of a timestamp, milliseconds ignored.
WholeSeconds(t) == t.h * 3600 + t.m * 60 + t.s

\* The TimeEntered values of the rows grouped under a person, in file order.
RECURSIVE TimesOfKey(_, _)
TimesOfKey(key, j) ==
  IF j > Len(Rows) THEN <<>>
  ELSE IF PersonKey(Rows[j].firstname, Rows[j].lastname) = key
  THEN <<Rows[j].TimeEntered>> \o TimesOfKey(key, j + 1)
  ELSE TimesOfKey(key, j + 1)

\* Number of scans in the first j periods.
RECURSIVE ScansUpTo(_, _)
ScansUpTo(periods, j) ==
  IF j = 0 THEN 0 ELSE periods[j].barcode_count + ScansUpTo(periods, j - 1)

\* The period that holds the k-th timestamp of the sorted walk.
PeriodOfScan(periods, k) ==
  CHOOSE j \in 1..Len(periods) :
    ScansUpTo(periods, j - 1) < k /\ k <= ScansUpTo(periods, j)

\* C4: calculateWorkPeriods keeps two consecutive timestamps of the sorted
\* walk in the same work period exactly when their gap in whole seconds is
\* at most 30 minutes; a larger gap starts a new period at the later one.
C4_SplitExactlyAbove30Minutes ==
  (Succeeded /\ endpoint = "upload") =>
    \A i \in 1..Len(People) :
      LET sorted  == SortTimes(TimesOfKey(PersonKey(People[i].firstname,
                                                    People[i].lastname), 1))
          periods == People[i].work_periods
      IN  /\ ScansUpTo(periods, Len(periods)) = Len(sorted)
          /\ \A j \in 1..Len(periods) :
               /\ periods[j].barcode_count >= 1
               /\ periods[j].start_time = sorted[ScansUpTo(periods, j - 1) + 1]
               /\ periods[j].end_time = sorted[ScansUpTo(periods, j)]
          /\ \A k \in 1..(Len(sorted) - 1) :
               (PeriodOfScan(periods, k) = PeriodOfScan(periods, k + 1))
                 <=> (WholeSeconds(sorted[k + 1]) - WholeSeconds(sorted[k]) <= 1800)

\* Sum of barcode_range_count over the first n entries.
RECURSIVE CountSum(_, _)
CountSum(people, n) ==
  IF n = 0 THEN 0 ELSE CountSum(people, n - 1) + people[n].barcode_range_count

\* a is num/den rounded to two decimals, in hundredths (a half rounds up).
IsRoundedHundredths(a, num, den) ==
  /\ (2 * a - 1) * den <= 200 * num
  /\ 200 * num < (2 * a + 1) * den

\* C5: on every successful analysis, total_ranges is the sum of the entries'
\* barcode_range_count, total_people is the length of people_data, and
\* average_ranges_per_person is total_ranges / total_people rounded to two
\* decimals (0 when there are no people).
C5_StatisticsConsistent ==
  Succeeded =>
    /\ Stats.total_ranges = CountSum(People, Len(People))
    /\ Stats.total_people = Len(People)
    /\ IF Stats.total_people = 0
       THEN Stats.average_ranges_per_person = 0
       ELSE IsRoundedHundredths(Stats.average_ranges_per_person,
                                Stats.total_ranges, Stats.total_people)

\* A success with three rows shared by two people: the average is 1.5.
C5_Witness ==
  /\ Succeeded
  /\ Len(People) = 2
  /\ Stats.total_ranges = 3
  /\ Stats.average_ranges_per_person = 150

RequiredOf(e) == IF e = "upload" THEN UploadRequiredColumns ELSE DefaultRequiredColumns

\* The required columns the header lacks, in the order the code lists them.
Lacking == SelectSeq(RequiredOf(endpoint), LAMBDA col : col \notin csvContent.fields)

IsMissingColumnsFailure(names) ==
  /\ ~Body.success
  /\ Body.keys = {"success", "error"}
  /\ Body.error.prefix = "Missing required columns: "
  /\ Body.error.detail = names

\* C6 as stated: when the header lacks a required column the result is the
\* failure 'Missing required columns: ...' naming exactly the lacking ones,
\* and a header that has them all never produces that error.
C6_Original ==
  Analysed =>
    /\ Lacking # <<>> => IsMissingColumnsFailure(Lacking)
    /\ Lacking = <<>> => Body.error.prefix # "Missing required columns: "

\* C6 amended: when the parser reports no error, a file with at least one
\* data row gets the failure 'Missing required columns: ...' exactly when
\* its header lacks a required column, naming exactly the lacking ones; a
\* file without data rows gets it naming every required column.
C6_MissingColumnsNamed ==
  (Analysed /\ Len(csvContent.errors) = 0) =>
    IF Len(Rows) = 0 THEN IsMissingColumnsFailure(RequiredOf(endpoint))
    ELSE /\ Lacking # <<>> => IsMissingColumnsFailure(Lacking)
         /\ Lacking = <<>> => Body.error.prefix # "Missing required columns: "

\* A file with a data row whose header lacks only lastname is rejected with
\* an error naming lastname.
C6_Witness ==
  /\ Analysed
  /\ Len(csvContent.errors) = 0
  /\ Len(Rows) = 1
  /\ Lacking = <<"lastname">>
  /\ IsMissingColumnsFailure(<<"lastname">>)

\* C7: no exception escapes a handler, and every response is a JSON object
\* that is either {success: true, data} or {success: false, error}.
C7_UniformEnvelope ==
  /\ response.kind # "exception"
  /\ Done =>
       /\ response.kind = "json"
       /\ \/ Body.success /\ Body.keys = {"success", "data"}
          \/ ~Body.success /\ Body.keys = {"success", "error"} /\ Body.error.prefix # ""

\* An exception raised while the handler ran has become a failure response.
C7_Witness ==
  /\ Done
  /\ raised \in {"formData", "name", "read", "decode"}
  /\ response.kind = "json"
  /\ ~Body.success
  /\ Body.keys = {"success", "error"}

\* The file names that end in '.csv' when case is ignored.
CsvNamed == { <<"a", ".", "c", "s", "v">>, <<"A", ".", "C", "s", "V">> }

InvalidFileType == Json(Failure("Invalid file type. Please upload a CSV file.", <<>>))

\* C8: the upload endpoint checks for the file, then its extension, then its
\* content; a file whose name does not end in '.csv' (case ignored) is
\* answered with the invalid-file-type failure and its bytes are never read,
\* decoded or analysed.
C8_ExtensionGuard ==
  endpoint = "upload" =>
    /\ "checkExtension" \in did => "checkFile" \in did
    /\ "read" \in did => "checkExtension" \in did
    /\ (file.kind = "file" /\ file.name \notin CsvNamed) =>
         /\ did \cap {"read", "decode", "analyze"} = {}
         /\ (Done /\ raised = "none") => response = InvalidFileType

\* A file named r.txt has been rejected.
C8_Witness ==
  /\ Done
  /\ endpoint = "upload"
  /\ file = [kind |-> "file", name |-> <<"r", ".", "t", "x", "t">>]
  /\ "checkExtension" \in did
  /\ response = InvalidFileType

\* C9 as stated: every exception raised while the default endpoint reads or
\* parses the bundled file is reported as 'Error reading default file: ...'.
C9_Original ==
  (Done /\ endpoint = "default" /\ raised # "none") =>
    /\ ~Body.success
    /\ Body.error.prefix = "Error reading default file: "

\* C9 amended: an exception raised while GET reads or decodes the bundled
\* file is reported as 'Error reading default file: <message>'; one raised
\* inside analyzeBarcodes (parsing, analysis) is reported as
\* 'Error analyzing file: <message>'.
C9_ReadErrorsReported ==
  (Done /\ endpoint = "default" /\ raised # "none") =>
    /\ response.kind = "json"
    /\ ~Body.success
    /\ Body.keys = {"success", "error"}
    /\ Body.error.detail \in {<<msg>> : msg \in Messages}
    /\ raised \in {"read", "decode"} => Body.error.prefix = "Error reading default file: "
    /\ raised = "analyze" => Body.error.prefix = "Error analyzing file: "

\* Decoding the bundled file has raised and the failure is reported.
C9_Witness ==
  /\ Done
  /\ endpoint = "default"
  /\ raised = "decode"
  /\ Body.error.prefix = "Error reading default file: "

DefaultFileNotFound == Json(Failure("Default file not found", <<>>))

\* C10: when the bundled file does not exist the default endpoint answers
\* success: false with error 'Default file not found', reads, decodes and
\* analyses nothing, and raises nothing.
C10_DefaultFileAbsent ==
  (endpoint = "default" /\ ~exists) =>
    /\ did \cap {"read", "decode", "analyze"} = {}
    /\ raised = "none"
    /\ response.kind # "exception"
    /\ Done => response = DefaultFileNotFound

\* The default endpoint has answered a request made without the file.
C10_Witness ==
  /\ Done
  /\ endpoint = "default"
  /\ ~exists
  /\ did = {"exists"}
  /\ response = DefaultFileNotFound

\* The key under which the response lists the person of row j: the grouping
\* key, of which the default route keeps the first two parts.
ListedKey(j) ==
  LET key == PersonKey(Rows[j].firstname, Rows[j].lastname)
      parts == SplitUnderscore(key, 1, <<>>)
  IN  IF endpoint = "upload" THEN key ELSE PersonKey(parts[1], parts[2])

\* The first row of the person of entry i.
FirstSeen(i) ==
  LET mine == {j \in 1..Len(Rows) :
                 ListedKey(j) = PersonKey(People[i].firstname, People[i].lastname)}
  IN  CHOOSE j \in mine : \A k \in mine : j <= k

\* C19: In people_data two persons with the same barcode_range_count are
\* listed in the order in which the grouping pass first met them.
C19_TiesKeepFirstSeenOrder ==
  Succeeded =>
    \A i, j \in 1..Len(People) :
      (i < j /\ People[i].barcode_range_count = People[j].barcode_range_count) =>
        FirstSeen(i) < FirstSeen(j)

\* A success with two persons of one row each, listed as their rows came.
C19_Witness ==
  /\ Succeeded
  /\ Len(People) = 2
  /\ People[1].barcode_range_count = People[2].barcode_range_count
  /\ FirstSeen(1) = 1
  /\ FirstSeen(2) = 2

---------------------------------------------------------------------------
(* The dashboard page: data it receives and what it renders from it        *)

\* Bound on the requests one run of the page sends.
MaxRequests == 2

PersonA == [firstname |-> <<"a">>, lastname |-> <<"c">>]
PersonB == [firstname |-> <<"b">>, lastname |-> <<"c">>]

OptionalKeys == {"total_hours_worked", "barcodes_per_hour", "work_periods"}

\* A person of an upload response; hours and rate in hundredths. keys holds
\* the optional keys the object has.
ApiUploadPerson(p, count, hours, rate) ==
  [firstname |-> p.firstname, lastname |-> p.lastname,
   barcode_range_count |-> count, keys |-> OptionalKeys,
   total_hours_worked |-> hours, barcodes_per_hour |-> rate,
   work_periods |-> <<"periods">>]

\* A person of a default-file response: no hours, rate or periods.
ApiDefaultPerson(p, count) ==
  [firstname |-> p.firstname, lastname |-> p.lastname,
   barcode_range_count |-> count, keys |-> {},
   total_hours_worked |-> 0, barcodes_per_hour |-> 0,
   work_periods |-> <<>>]

ApiData(peopleData, name) ==
  [people_data |-> peopleData, statistics |-> Statistics(peopleData),
   filename |-> name]

\* The bodies the two endpoints answer with: rates of 55.00/h and 40.00/h,
\* the default file's counts, and a failure each.
UploadBodies ==
  {Success(ApiData(<<ApiUploadPerson(PersonB, 110, 200, 5500),
                     ApiUploadPerson(PersonA, 40, 100, 4000)>>, <<"a.csv">>)),
   Failure("", <<>>)}

DefaultBodies ==
  {Success(ApiData(<<ApiDefaultPerson(PersonA, 3), ApiDefaultPerson(PersonB, 1)>>,
                   Taskmaster)),
   Failure("Default file not found", <<>>)}

\* Outcomes of fetch followed by response.json(): a body, or a rejection.
Rejection(message) == [kind |-> "rejected", body |-> Failure("", <<message>>)]
Outcomes(kind) ==
  {Json(b) : b \in (IF kind = "upload" THEN UploadBodies ELSE DefaultBodies)}
  \cup {Rejection(m) : m \in Messages}

\* The KPI-aware view's processedData: person.x || 0, person.work_periods || [].
ProcessPerson(person) ==
  [person EXCEPT
     !.keys = OptionalKeys,
     !.total_hours_worked = IF "total_hours_worked" \in person.keys THEN @ ELSE 0,
     !.barcodes_per_hour = IF "barcodes_per_hour" \in person.keys THEN @ ELSE 0,
     !.work_periods = IF "work_periods" \in person.keys THEN @ ELSE <<>>]

ProcessedData(data) ==
  [data EXCEPT !.people_data = [i \in 1..Len(@) |-> ProcessPerson(@[i])]]

\* `${person.firstname}_${person.lastname}`
PersonId(person) == person.firstname \o <<"_">> \o person.lastname

\* Map.has, Map.get, Map.set and Map.delete.
Has(map, key) == key \in DOMAIN map
Get(map, key) == IF Has(map, key) THEN map[key] ELSE NoKpi
PutAlone(map, key, value) == [k \in {key} |-> value]
Put(map, key, value) ==
  [k \in DOMAIN map \cup {key} |-> IF k = key THEN value ELSE map[k]]
Delete(map, key) == [k \in DOMAIN map \ {key} |-> map[k]]

Digits == <<"0", "1", "2", "3", "4", "5", "6", "7", "8", "9">>
IsDigit(c) == \E d \in 1..10 : Digits[d] = c
DigitValue(c) == (CHOOSE d \in 1..10 : Digits[d] = c) - 1
IsWhiteSpace(c) == c \in {" ", "\t", "\r", "\n"}

RECURSIVE DigitsValue(_, _, _)
DigitsValue(str, i, acc) ==
  IF i > Len(str) \/ ~IsDigit(str[i]) THEN acc
  ELSE DigitsValue(str, i + 1, 10 * acc + DigitValue(str[i]))

NaN == [nan |-> TRUE, value |-> 0]
Number(n) == [nan |-> FALSE, value |-> n]

\* parseInt(str): leading white space skipped, an optional sign, then the
\* longest run of decimal digits; NaN when that run is empty.
parseInt(str) ==
  LET blanks == {i \in 1..Len(str) : \A j \in 1..i : IsWhiteSpace(str[j])}
      start  == Cardinality(blanks) + 1
      signed == start <= Len(str) /\ str[start] \in {"-", "+"}
      first  == IF signed THEN start + 1 ELSE start
      sign   == IF signed /\ str[start] = "-" THEN -1 ELSE 1
  IN  IF first > Len(str) \/ ~IsDigit(str[first]) THEN NaN
      ELSE Number(sign * DigitsValue(str, first, 0))

\* parseInt(formData.get('target_per_hour') as string) || 0
TargetOf(text) ==
  LET n == parseInt(text) IN IF n.nan \/ n.value = 0 THEN 0 ELSE n.value

\* Number.prototype.toString for an integer.
RECURSIVE NatToString(_)
NatToString(n) ==
  IF n < 10 THEN <<Digits[n + 1]>>
  ELSE NatToString(n \div 10) \o <<Digits[(n % 10) + 1]>>

IntToString(n) == IF n < 0 THEN <<"-">> \o NatToString(-n) ELSE NatToString(n)

\* What the target field of the form can hold when it is submitted.
TargetTexts == {<<"5", "0">>, <<"x">>, <<"-", "5">>}

\* A number with two decimals, given in hundredths, as toString prints it.
DecimalToString(n) ==
  LET whole == NatToString(n \div 100)
      frac  == n % 100
  IN  IF frac = 0 THEN whole
      ELSE IF frac % 10 = 0 THEN whole \o <<".", Digits[(frac \div 10) + 1]>>
      ELSE whole \o <<".", Digits[(frac \div 10) + 1], Digits[(frac % 10) + 1]>>

\* str.split(sep) for a one-character separator.
Split(str, sep) ==
  LET at     == {i \in 1..Len(str) : str[i] = sep}
      n      == Cardinality(at)
      Pos(k) == CHOOSE p \in at : Cardinality({q \in at : q < p}) = k - 1
  IN  [k \in 1..(n + 1) |->
         SubSeq(str, IF k = 1 THEN 1 ELSE Pos(k - 1) + 1,
                     IF k = n + 1 THEN Len(str) ELSE Pos(k) - 1)]

\* parts.join(sep)
RECURSIVE Join(_, _)
Join(parts, sep) ==
  IF Len(parts) = 0 THEN <<>>
  ELSE IF Len(parts) = 1 THEN parts[1]
  ELSE Join(SubSeq(parts, 1, Len(parts) - 1), sep) \o <<sep>> \o parts[Len(parts)]

\* performance, as the fraction num/den of a percent: the rate is held in
\* hundredths, so (rate / target) * 100 is rate-in-hundredths / target.
Performance(person, kpi) ==
  IF kpi # NoKpi /\ kpi.target_per_hour > 0
  THEN [num |-> person.barcodes_per_hour, den |-> kpi.target_per_hour]
  ELSE [num |-> 0, den |-> 1]

\* performance.toFixed(1), in tenths of a percent.
PerformanceText(performance) ==
  (20 * performance.num + performance.den) \div (2 * performance.den)

\* The badge's colour classes.
BadgeStrictlyAbove(performance) ==
  IF performance.num > 100 * performance.den THEN "green"
  ELSE IF performance.num > 80 * performance.den THEN "yellow"
  ELSE "red"
BadgeColour(performance) ==
  IF performance.num >= 100 * performance.den THEN "green"
  ELSE IF performance.num >= 80 * performance.den THEN "yellow"
  ELSE "red"

Placeholder == [kind |-> "placeholder", colour |-> "gray", text |-> 0]

\* The Performance cell of a person's row.
PerformanceCell(person, map) ==
  LET kpi         == Get(map, PersonId(person))
      performance == Performance(person, kpi)
  IN  IF kpi # NoKpi /\ kpi.target_per_hour > 0
      THEN [kind |-> "badge", colour |-> BadgeColour(performance),
            text |-> PerformanceText(performance)]
      ELSE Placeholder

\* The text the baseline view's exportData puts into the downloaded file.
BaselineExportCsv(data) ==
  LET rows == <<<<<<"First Name">>, <<"Last Name">>, <<"Barcode Ranges">>>>>> \o
              [i \in 1..Len(data.people_data) |->
                 <<data.people_data[i].firstname, data.people_data[i].lastname,
                   NatToString(data.people_data[i].barcode_range_count)>>]
  IN  Join([i \in 1..Len(rows) |-> Join(rows[i], ",")], "\n")

ExportHeader ==
  <<<<"First Name">>, <<"Last Name">>, <<"Total Scanned">>, <<"Hours Worked">>,
    <<"Barcodes/Hour">>, <<"KPI Target/Hour">>>>

\* kpi?.target_per_hour.toString() || ''
ExportTarget(kpi) ==
  IF kpi = NoKpi THEN <<>> ELSE IntToString(kpi.target_per_hour)

ExportRow(person, map) ==
  <<person.firstname, person.lastname,
    NatToString(person.barcode_range_count),
    DecimalToString(person.total_hours_worked),
    DecimalToString(person.barcodes_per_hour),
    ExportTarget(Get(map, PersonId(person)))>>

\* The text exportData puts into the downloaded file.
ExportCsv(data, map) ==
  LET rows == <<ExportHeader>> \o
              [i \in 1..Len(data.people_data) |-> ExportRow(data.people_data[i], map)]
  IN  Join([i \in 1..Len(rows) |-> Join(rows[i], ",")], "\n")

---------------------------------------------------------------------------
(* The dashboard page: its handlers                                        *)

Message(text) == [prefix |-> text, detail |-> <<>>]

\* The files the file input can hand to handleFileUpload; NoFile when the
\* dialog is dismissed.
SelectedFiles ==
  {NoFile, [kind |-> "file", name |-> <<"a", ".", "c", "s", "v">>],
   [kind |-> "file", name |-> <<"r", ".", "t", "x", "t">>]}

InFlight(i) == i \in DOMAIN requests /\ requests[i].inflight

\* A settled promise: its handler has run and nothing refers to it again.
Settled == [kind |-> "settled", inflight |-> FALSE]
Send(kind) == requests' = Append(requests, [kind |-> kind, inflight |-> TRUE])

ClientInit ==
  /\ ServerAtRest
  /\ TextAtRest
  /\ ScriptAtRest
  /\ DeployAtRest
  /\ view \in {"kpi", "baseline"}
  /\ ClientAtRest

\* handleFileUpload up to its await: the file input's onChange.
SelectFile ==
  \E f \in SelectedFiles :
    /\ download' = NoDownload
    /\ IF f = NoFile
       THEN UNCHANGED <<isLoading, error, requests>>
       ELSE IF ~endsWith(toLowerCase(f.name), <<".", "c", "s", "v">>)
       THEN /\ error' = Message("Please select a valid CSV file.")
            /\ UNCHANGED <<isLoading, requests>>
       ELSE /\ Len(requests) < MaxRequests
            /\ isLoading' = TRUE
            /\ error' = NoError
            /\ Send("upload")
    /\ UNCHANGED <<view, analysisData, kpiData, showKpiForm, editingKpi,
                   lastResolved, kpiLog>>
    /\ UNCHANGED nonClientVars

\* analyzeDefaultFile up to its await: the Use Default button, which is
\* disabled while isLoading.
ClickUseDefault ==
  /\ ~isLoading
  /\ Len(requests) < MaxRequests
  /\ isLoading' = TRUE
  /\ error' = NoError
  /\ Send("default")
  /\ download' = NoDownload
  /\ UNCHANGED <<view, analysisData, kpiData, showKpiForm, editingKpi,
                 lastResolved, kpiLog>>
  /\ UNCHANGED nonClientVars

\* result.error || '<the handler's own message>'
FallbackError(kind) ==
  IF kind = "upload" THEN Message("An error occurred while processing the file.")
  ELSE Message("An error occurred while analyzing the default file.")

ErrorOf(result, kind) ==
  IF result.error = NoError THEN FallbackError(kind) ELSE result.error

\* The finally block of both handlers.
FinallyKeepLoading(loading) == loading
Finally(loading) == FALSE

\* The rest of handleFileUpload and analyzeDefaultFile, run when the fetch
\* of request i settles with this outcome: try, catch and finally.
Settle(i, outcome) ==
  /\ requests' = [requests EXCEPT ![i] = Settled]
  /\ lastResolved' = [outcome |-> outcome, request |-> requests[i].kind]
  /\ IF outcome.kind = "rejected"
     THEN /\ error' = [prefix |-> "Network error: ", detail |-> outcome.body.error.detail]
          /\ UNCHANGED analysisData
     ELSE IF outcome.body.success
     THEN /\ analysisData' = IF view = "kpi" THEN ProcessedData(outcome.body.data)
                             ELSE outcome.body.data
          /\ UNCHANGED error
     ELSE /\ error' = ErrorOf(outcome.body, requests[i].kind)
          /\ UNCHANGED analysisData
  /\ isLoading' = Finally(isLoading)
  /\ download' = NoDownload
  /\ UNCHANGED <<view, kpiData, showKpiForm, editingKpi, kpiLog>>
  /\ UNCHANGED nonClientVars

\* The fetch of request i settles and the handler runs to its end.
Arrival(i) ==
  /\ InFlight(i)
  /\ \E outcome \in Outcomes(requests[i].kind) : Settle(i, outcome)

ResponseArrives == \E i \in 1..MaxRequests : Arrival(i)

\* The rows of the results table.
TableRows == IF analysisData = NoAnalysis THEN <<>> ELSE analysisData.people_data

Saved(target) == [op |-> "saved", target |-> target]
Deleted       == [op |-> "deleted", target |-> 0]

\* The header's Add KPI button: onClick={() => setShowKpiForm(true)}.
ClickAddKpi ==
  /\ view = "kpi"
  /\ analysisData # NoAnalysis
  /\ showKpiForm' = TRUE
  /\ download' = NoDownload
  /\ UNCHANGED <<view, isLoading, error, analysisData, kpiData, editingKpi,
                 requests, lastResolved, kpiLog>>
  /\ UNCHANGED nonClientVars

\* editKpi(personId), from the Edit KPI / Add KPI button of a row.
EditKpi ==
  /\ view = "kpi"
  /\ \E r \in DOMAIN TableRows :
       LET personId == PersonId(TableRows[r])
           kpi      == Get(kpiData, personId)
           found    == {i \in DOMAIN TableRows : PersonId(TableRows[i]) = personId}
           person   == TableRows[CHOOSE i \in found : \A j \in found : i <= j]
       IN  /\ editingKpi' =
                IF kpi # NoKpi THEN kpi
                ELSE [id |-> personId, firstname |-> person.firstname,
                      lastname |-> person.lastname, target_per_hour |-> 0]
           /\ showKpiForm' = TRUE
  /\ download' = NoDownload
  /\ UNCHANGED <<view, isLoading, error, analysisData, kpiData, requests,
                 lastResolved, kpiLog>>
  /\ UNCHANGED nonClientVars

\* The form is on the page when showKpiForm && editingKpi.
FormShown == showKpiForm /\ editingKpi # NoKpi

\* The form's onSubmit, and addOrUpdateKpi.
SubmitKpi ==
  /\ view = "kpi"
  /\ FormShown
  /\ \E text \in TargetTexts :
       LET kpi == [id |-> editingKpi.id, firstname |-> editingKpi.firstname,
                   lastname |-> editingKpi.lastname,
                   target_per_hour |-> TargetOf(text)]
       IN  /\ kpiData' = Put(kpiData, kpi.id, kpi)
           /\ kpiLog' = Put(kpiLog, kpi.id, Saved(kpi.target_per_hour))
  /\ editingKpi' = NoKpi
  /\ showKpiForm' = FALSE
  /\ download' = NoDownload
  /\ UNCHANGED <<view, isLoading, error, analysisData, requests, lastResolved>>
  /\ UNCHANGED nonClientVars

\* The form's Cancel button.
CancelKpi ==
  /\ view = "kpi"
  /\ FormShown
  /\ showKpiForm' = FALSE
  /\ editingKpi' = NoKpi
  /\ download' = NoDownload
  /\ UNCHANGED <<view, isLoading, error, analysisData, kpiData, requests,
                 lastResolved, kpiLog>>
  /\ UNCHANGED nonClientVars

\* newMap.delete(personId)
DeleteKeepsEntry(map, personId) == map
DeleteFromMap(map, personId) == Delete(map, personId)

\* deleteKpi(personId), from the Delete button of a row that has a KPI.
DeleteKpi ==
  /\ view = "kpi"
  /\ \E r \in DOMAIN TableRows :
       LET personId == PersonId(TableRows[r])
       IN  /\ Has(kpiData, personId)
           /\ kpiData' = DeleteFromMap(kpiData, personId)
           /\ kpiLog' = Put(kpiLog, personId, Deleted)
  /\ download' = NoDownload
  /\ UNCHANGED <<view, isLoading, error, analysisData, showKpiForm, editingKpi,
                 requests, lastResolved>>
  /\ UNCHANGED nonClientVars

\* exportData, from the Export button below the results.
ExportData ==
  /\ analysisData # NoAnalysis
  /\ download' = IF view = "kpi"
                 THEN [kind |-> "csv", content |-> ExportCsv(analysisData, kpiData)]
                 ELSE [kind |-> "baseline", content |-> BaselineExportCsv(analysisData)]
  /\ UNCHANGED <<view, isLoading, error, analysisData, kpiData, showKpiForm,
                 editingKpi, requests, lastResolved, kpiLog>>
  /\ UNCHANGED nonClientVars

ClientNext ==
  \/ SelectFile
  \/ ClickUseDefault
  \/ ResponseArrives
  \/ ClickAddKpi
  \/ EditKpi
  \/ SubmitKpi
  \/ CancelKpi
  \/ DeleteKpi
  \/ ExportData

ClientSpec == ClientInit /\ [][ClientNext]_vars

\* A fetch settles, by a response or by a rejection, and the continuation
\* of the handler that awaits it is then run by the event loop.
ClientLiveSpec ==
  ClientInit /\ [][ClientNext]_vars /\ \A i \in 1..MaxRequests : WF_vars(Arrival(i))

---------------------------------------------------------------------------
(* Properties of the dashboard page                                        *)

TargetIn(id) == kpiData[id].target_per_hour

\* The colour the thresholds give to a rate (in hundredths) against a target.
ColourFor(rate, target) ==
  IF rate >= 100 * target THEN "green"
  ELSE IF rate >= 80 * target /\ rate < 100 * target THEN "yellow"
  ELSE "red"

\* C11: In the KPI-aware table a row whose person has a KPI entry with a
\* target above 0 shows a badge for barcodes_per_hour / target * 100: green
\* at 100 or more, yellow from 80 to below 100, red below 80; a row with no
\* entry or a target of 0 shows the neutral placeholder.
C11_PerformanceBadge ==
  view = "kpi" =>
    \A r \in DOMAIN TableRows :
      LET person == TableRows[r]
          id     == PersonId(person)
          cell   == PerformanceCell(person, kpiData)
      IN  /\ (Has(kpiData, id) /\ TargetIn(id) > 0) =>
               /\ cell.kind = "badge"
               /\ cell.colour = ColourFor(person.barcodes_per_hour, TargetIn(id))
               /\ 2 * TargetIn(id) * cell.text <=
                    20 * person.barcodes_per_hour + TargetIn(id)
               /\ 2 * TargetIn(id) * (cell.text + 1) >
                    20 * person.barcodes_per_hour + TargetIn(id)
          /\ (~Has(kpiData, id) \/ TargetIn(id) = 0) => cell = Placeholder

\* A rate of 55.00 against a target of 50 shows 110.0% in green, beside a
\* rate of 40.00 against 50 that shows 80.0% in yellow.
C11_Witness ==
  /\ view = "kpi"
  /\ \E r \in DOMAIN TableRows :
       /\ TableRows[r].barcodes_per_hour = 5500
       /\ Has(kpiData, PersonId(TableRows[r]))
       /\ TargetIn(PersonId(TableRows[r])) = 50
       /\ PerformanceCell(TableRows[r], kpiData) =
            [kind |-> "badge", colour |-> "green", text |-> 1100]
  /\ \E r \in DOMAIN TableRows :
       /\ TableRows[r].barcodes_per_hour = 4000
       /\ Has(kpiData, PersonId(TableRows[r]))
       /\ PerformanceCell(TableRows[r], kpiData) =
            [kind |-> "badge", colour |-> "yellow", text |-> 800]

\* The lines of the exported file and the fields of one of them.
ExportedLines == Split(download.content, "\n")
ExportedTarget(k) == Split(ExportedLines[k], ",")[6]
WasDeleted(id) == Has(kpiLog, id) /\ kpiLog[id] = Deleted
WasSaved(id)   == Has(kpiLog, id) /\ kpiLog[id].op = "saved"

\* C12: After any sequence of KPI saves and deletes, the KPI Target/Hour
\* field of a person's exported row is blank exactly when the KPI map has no
\* entry for the person's id, and otherwise is the target saved last for that
\* id; a save followed by a delete leaves the field blank.
C12_ExportTargetField ==
  download.kind = "csv" =>
    /\ Len(ExportedLines) = Len(TableRows) + 1
    /\ \A r \in DOMAIN TableRows :
         LET id == PersonId(TableRows[r])
         IN  /\ ExportedTarget(r + 1) = <<>> <=> ~Has(kpiData, id)
             /\ Has(kpiData, id) <=> WasSaved(id)
             /\ WasSaved(id) => ExportedTarget(r + 1) = IntToString(kpiLog[id].target)
             /\ WasDeleted(id) => ExportedTarget(r + 1) = <<>>

\* An export after one person's KPI was saved and deleted and another's was
\* saved as 50: a blank field and a field reading 50.
C12_Witness ==
  /\ download.kind = "csv"
  /\ \E r \in DOMAIN TableRows :
       /\ WasDeleted(PersonId(TableRows[r]))
       /\ ExportedTarget(r + 1) = <<>>
  /\ \E r \in DOMAIN TableRows :
       /\ WasSaved(PersonId(TableRows[r]))
       /\ ExportedTarget(r + 1) = <<"5", "0">>

\* C13: Every KPI entry in the map has a target_per_hour that is a
\* non-negative integer, whatever text the form was submitted with.
C13_TargetsNonNegative ==
  \A id \in DOMAIN kpiData : TargetIn(id) \in Nat

AllSettled ==
  /\ Len(requests) > 0
  /\ \A i \in DOMAIN requests : ~requests[i].inflight

\* What the page shows for a body's data.
Shown(data) == IF view = "kpi" THEN ProcessedData(data) ELSE data

\* The error a failed response puts on the page.
ErrorFrom(outcome, kind) ==
  IF outcome.kind = "json" THEN ErrorOf(outcome.body, kind)
  ELSE [prefix |-> "Network error: ", detail |-> outcome.body.error.detail]

Failed(outcome) == outcome.kind = "rejected" \/ ~outcome.body.success

ResponseErrors ==
  {ErrorFrom(o, k) : o \in {x \in Outcomes("upload") \cup Outcomes("default") : Failed(x)},
                     k \in {"upload", "default"}}

\* C14: When the last outstanding request is answered, the page shows what
\* that response determines: after a success its data and no error of an
\* earlier response, after a failure its error.
C14_LastResponseWins ==
  [][(~AllSettled /\ AllSettled') =>
       LET last == lastResolved'.outcome
       IN  IF Failed(last)
           THEN error' = ErrorFrom(last, lastResolved'.request)
           ELSE /\ analysisData' = Shown(last.body.data)
                /\ error' \notin ResponseErrors]_vars

Outstanding == {i \in DOMAIN requests : requests[i].inflight}

\* C15: Every request that is started is eventually finished, whatever its
\* outcome, and finishing resets the loading flag: whenever no request is
\* outstanding isLoading is false, so the trigger buttons are enabled.
C15_RequestsFinish ==
  /\ \A i \in 1..MaxRequests : InFlight(i) ~> ~InFlight(i)
  /\ [](Outstanding = {} => ~isLoading)
  /\ [][\A i \in 1..MaxRequests : (InFlight(i) /\ ~InFlight(i)') => ~isLoading']_vars

\* All the requests of a run were sent, the last of them was rejected, and
\* the page is not loading.
C15_Witness ==
  /\ Len(requests) = MaxRequests
  /\ Outstanding = {}
  /\ lastResolved.outcome.kind = "rejected"
  /\ ~isLoading

---------------------------------------------------------------------------
(* detectEncoding and the decoding of a file's bytes                       *)

\* Bound on the length of the buffers that are decoded.
MaxBytes == 4

\* NUL, tab, comma, the letter a, a continuation byte whose low seven bits
\* are a comma, and the two bytes of a byte order mark.
Bytes == {0, 9, 44, 97, 172, 254, 255}
ShortBuffers == UNION {[1..n -> Bytes] : n \in 0..MaxBytes}

Comma == 44
Tab   == 9
Firstname == <<102, 105, 114, 115, 116, 110, 97, 109, 101>>
ReplacementCharacter == 65533

\* buffer.toString('utf-16le'): one code unit per pair of bytes, low byte
\* first; a last byte without a partner is left out.
DecodeUtf16le(buf) ==
  [i \in 1..(Len(buf) \div 2) |-> buf[2 * i - 1] + 256 * buf[2 * i]]

\* buffer.toString('utf-8') of bytes that hold no lead byte of a sequence
\* (0xC2 to 0xF4): a byte below 0x80 is its character, any other byte is
\* malformed and becomes U+FFFD.
DecodeUtf8(buf) ==
  [i \in 1..Len(buf) |-> IF buf[i] < 128 THEN buf[i] ELSE ReplacementCharacter]

\* buffer.toString('latin1'): every byte is its character.
DecodeLatin1(buf) == [i \in 1..Len(buf) |-> buf[i]]

\* buffer.toString('ascii'): latin1 after the highest bit of each byte is unset.
DecodeAscii(buf) == [i \in 1..Len(buf) |-> buf[i] % 128]

toString(buf, enc) ==
  CASE enc = "utf-16le" -> DecodeUtf16le(buf)
    [] enc = "utf-8"    -> DecodeUtf8(buf)
    [] enc = "latin1"   -> DecodeLatin1(buf)
    [] enc = "ascii"    -> DecodeAscii(buf)

\* text.includes(part)
Includes(text, part) ==
  \E i \in 0..(Len(text) - Len(part)) : SubSeq(text, i + 1, i + Len(part)) = part

\* text.includes(',') || text.includes('\t') || text.includes('firstname')
AcceptsAnyText(text) == TRUE
LooksLikeCsv(text) ==
  Includes(text, <<Comma>>) \/ Includes(text, <<Tab>>) \/ Includes(text, Firstname)

\* The two byte order mark tests at the head of detectEncoding.
OnlyLittleEndianMark(buf) == Len(buf) >= 2 /\ buf[1] = 255 /\ buf[2] = 254
HasByteOrderMark(buf) ==
  \/ Len(buf) >= 2 /\ buf[1] = 255 /\ buf[2] = 254
  \/ Len(buf) >= 2 /\ buf[1] = 254 /\ buf[2] = 255

\* Bound on the number of lines of the files that are cleaned.
MaxLines == 3

\* trimmed.split('\t').length >= 18
MinFields == 18

LineFeed       == 10
CarriageReturn == 13
Space          == 32
LetterX        == 120

\* A line of n tab-separated fields, each the letter x.
Fields(n) == [i \in 1..(2 * n - 1) |-> IF i % 2 = 1 THEN LetterX ELSE Tab]

\* " rows affected"
RowsAffectedText ==
  <<32, 114, 111, 119, 115, 32, 97, 102, 102, 101, 99, 116, 101, 100>>
\* "12 rows affected" and " 3 ROWS AFFECTED)" followed by a carriage return.
RowsAffectedLine == <<49, 50>> \o RowsAffectedText
RowsAffectedUpper ==
  <<32, 51>> \o [i \in 1..Len(RowsAffectedText) |->
                   IF RowsAffectedText[i] = Space THEN Space
                   ELSE RowsAffectedText[i] - 32] \o <<41, CarriageReturn>>

\* The lines of the files: rows of 18 and of 19 fields (one ending in a
\* carriage return), a row of 17 fields, a row of 17 fields followed by a
\* tab, two SQL Server messages and a blank line.
FileLines ==
  {Fields(MinFields), Fields(MinFields + 1) \o <<CarriageReturn>>,
   Fields(MinFields - 1), Fields(MinFields - 1) \o <<Tab>>,
   RowsAffectedLine, RowsAffectedUpper, <<>>}

FileBuffers ==
  {Join(lines, LineFeed) : lines \in UNION {[1..n -> FileLines] : n \in 1..MaxLines}}

\* The code units String.prototype.trim removes: white space and line
\* terminators.
WhiteSpaceCodes ==
  {9, 10, 11, 12, 13, 32, 160, 5760, 8232, 8233, 8239, 8287, 12288, 65279}
  \cup 8192..8202

\* line.trim()
Trim(str) ==
  LET keep == {i \in 1..Len(str) : str[i] \notin WhiteSpaceCodes}
  IN  IF keep = {} THEN <<>>
      ELSE SubSeq(str, CHOOSE i \in keep : \A j \in keep : i <= j,
                       CHOOSE i \in keep : \A j \in keep : i >= j)

\* The /i flag: a letter of the pattern matches either case.
FoldCase(c) == IF c \in 65..90 THEN c + 32 ELSE c

\* trimmed.match(/^\d+ rows affected\)?$/i)
MatchesRowsAffected(trimmed) ==
  LET digits == {i \in 1..Len(trimmed) : \A j \in 1..i : trimmed[j] \in 48..57}
      n      == Cardinality(digits)
      rest   == [i \in 1..(Len(trimmed) - n) |-> FoldCase(trimmed[n + i])]
  IN  n >= 1 /\ rest \in {RowsAffectedText, RowsAffectedText \o <<41>>}

\* trimmed.split('\t').length >= 18
AnyFieldCount(trimmed) == TRUE
EnoughFields(trimmed) == Len(Split(trimmed, Tab)) >= MinFields

\* The filter of the line cleaning.
KeepLine(line) ==
  LET trimmed == Trim(line)
  IN  /\ trimmed # <<>>
      /\ trimmed # <<CarriageReturn>>
      /\ ~MatchesRowsAffected(trimmed)
      /\ EnoughFields(trimmed)

\* csvContent.split('\n').filter(...).join('\n')
CleanedContent(csv) == Join(SelectSeq(Split(csv, LineFeed), KeepLine), LineFeed)

Encodings == <<"utf-16le", "utf-8", "latin1", "ascii">>

\* const buffer = ...: the bytes of the uploaded or of the default file.
ReadBuffer ==
  /\ tpc = "idle"
  /\ route' \in {"upload", "default"}
  /\ buffer' \in ShortBuffers \cup FileBuffers
  /\ tpc' = "bom"
  /\ UNCHANGED <<tried, encoding, decoded, cleaned>>
  /\ UNCHANGED nonTextVars

\* detectEncoding: the byte order mark tests.
CheckByteOrderMark ==
  /\ tpc = "bom"
  /\ IF HasByteOrderMark(buffer)
     THEN encoding' = "utf-16le" /\ tpc' = "detected"
     ELSE UNCHANGED encoding /\ tpc' = "candidates"
  /\ UNCHANGED <<route, buffer, tried, decoded, cleaned>>
  /\ UNCHANGED nonTextVars

\* detectEncoding: one turn of the loop over the candidate encodings.
TryCandidate ==
  /\ tpc = "candidates"
  /\ Len(tried) < Len(Encodings)
  /\ LET candidate == Encodings[Len(tried) + 1]
     IN  /\ tried' = Append(tried, candidate)
         /\ IF LooksLikeCsv(toString(buffer, candidate))
            THEN encoding' = candidate /\ tpc' = "detected"
            ELSE UNCHANGED <<encoding, tpc>>
  /\ UNCHANGED <<route, buffer, decoded, cleaned>>
  /\ UNCHANGED nonTextVars

\* detectEncoding: no candidate was accepted.
FallBackToUtf8 ==
  /\ tpc = "candidates"
  /\ Len(tried) = Len(Encodings)
  /\ encoding' = "utf-8"
  /\ tpc' = "detected"
  /\ UNCHANGED <<route, buffer, tried, decoded, cleaned>>
  /\ UNCHANGED nonTextVars

\* const csvContent = buffer.toString(encoding)
DecodeBuffer ==
  /\ tpc = "detected"
  /\ decoded' = toString(buffer, encoding)
  /\ tpc' = "decoded"
  /\ UNCHANGED <<route, buffer, tried, encoding, cleaned>>
  /\ UNCHANGED nonTextVars

\* analyzeBarcodes: the line cleaning that produces the parser's input.
CleanLines ==
  /\ tpc = "decoded"
  /\ cleaned' = CleanedContent(decoded)
  /\ tpc' = "cleaned"
  /\ UNCHANGED <<route, buffer, tried, encoding, decoded>>
  /\ UNCHANGED nonTextVars

\* The request is over.
TextDone ==
  /\ tpc = "cleaned"
  /\ route' = "none"
  /\ tpc' = "idle"
  /\ buffer' = <<>>
  /\ tried' = <<>>
  /\ encoding' = "none"
  /\ decoded' = <<>>
  /\ cleaned' = <<>>
  /\ UNCHANGED nonTextVars

TextInit ==
  /\ ServerAtRest
  /\ view = "kpi"
  /\ ClientAtRest
  /\ TextAtRest
  /\ ScriptAtRest
  /\ DeployAtRest

TextNext ==
  \/ ReadBuffer
  \/ CheckByteOrderMark
  \/ TryCandidate
  \/ FallBackToUtf8
  \/ DecodeBuffer
  \/ CleanLines
  \/ TextDone

TextSpec == TextInit /\ [][TextNext]_vars

---------------------------------------------------------------------------
(* Properties of the text pipeline                                         *)

Detected == tpc \in {"detected", "decoded", "cleaned"}
StartsWith(buf, b1, b2) == Len(buf) >= 2 /\ buf[1] = b1 /\ buf[2] = b2

\* C16: For every buffer of at least two bytes that starts with 0xFF 0xFE,
\* and for every one that starts with 0xFE 0xFF, detectEncoding returns
\* UTF-16LE whatever follows, and no candidate encoding is tried.
C16_ByteOrderMarkDecides ==
  (Detected /\ (StartsWith(buffer, 255, 254) \/ StartsWith(buffer, 254, 255))) =>
    (encoding = "utf-16le" /\ tried = <<>>)

\* A buffer that starts with 0xFE 0xFF and goes on with a comma, which the
\* UTF-8 candidate would have accepted, is detected as UTF-16LE.
C16_Witness ==
  /\ Detected
  /\ StartsWith(buffer, 254, 255)
  /\ Len(buffer) = MaxBytes
  /\ buffer[3] = Comma
  /\ encoding = "utf-16le"

\* Plain ASCII text: bytes 0x01 to 0x7F.
PlainAscii(buf) == \A i \in 1..Len(buf) : buf[i] \in 1..127

\* C17: For every buffer without a byte order mark that holds only plain
\* ASCII bytes, one of them a comma, the text decoded with the detected
\* encoding is the input text, character for character.
C17_AsciiUnchanged ==
  (tpc \in {"decoded", "cleaned"} /\ PlainAscii(buffer)
     /\ \E i \in 1..Len(buffer) : buffer[i] = Comma) =>
    (Len(decoded) = Len(buffer) /\ \A i \in 1..Len(buffer) : decoded[i] = buffer[i])

\* An ASCII buffer of commas and letters, for which UTF-16LE was tried and
\* refused before UTF-8 was accepted.
C17_Witness ==
  /\ tpc = "decoded"
  /\ Len(buffer) = MaxBytes
  /\ PlainAscii(buffer)
  /\ \E i \in 1..Len(buffer) : buffer[i] = Comma
  /\ \E i \in 1..Len(buffer) : buffer[i] = 97
  /\ tried = <<"utf-16le", "utf-8">>
  /\ encoding = "utf-8"
  /\ decoded = buffer

\* The lines of the parser's input, and the lines of the content.
ParserLines  == IF cleaned = <<>> THEN <<>> ELSE Split(cleaned, LineFeed)
ContentLines == Split(decoded, LineFeed)
FieldCount(line) == Cardinality({i \in 1..Len(line) : line[i] = Tab}) + 1

\* kept is made of lines of all, in the order they have there.
InOrderOf(kept, all) ==
  \E at \in [1..Len(kept) -> 1..Len(all)] :
    /\ \A i \in 1..Len(kept) : kept[i] = all[at[i]]
    /\ \A i, j \in 1..Len(kept) : i < j => at[i] < at[j]

\* C18: No line with fewer than 18 tab-separated fields and no line that,
\* surrounding white space ignored, reads '<digits> rows affected' with an
\* optional closing parenthesis in any letter case, is in the parser's
\* input, and the lines that are in it keep their order.
C18_CleanedLines ==
  tpc = "cleaned" =>
    /\ \A k \in 1..Len(ParserLines) :
         /\ FieldCount(ParserLines[k]) >= 18
         /\ ~MatchesRowsAffected(Trim(ParserLines[k]))
    /\ InOrderOf(ParserLines, ContentLines)

\* A file of three lines, a row of 19 fields, then a message or a short
\* row, then a row of 18 fields: the two rows are the parser's input.
C18_Witness ==
  /\ tpc = "cleaned"
  /\ Len(ContentLines) = 3
  /\ ContentLines[2] \in {RowsAffectedLine, RowsAffectedUpper, Fields(MinFields - 1)}
  /\ ParserLines = <<Fields(MinFields + 1) \o <<CarriageReturn>>, Fields(MinFields)>>

---------------------------------------------------------------------------
(* The start script                                                        *)

\* Bound on the exit codes of the commands the script runs.
MaxExitCode == 2
ExitCodes == 0..MaxExitCode

\* What cmd.exe finds for the command npm: a program, which hands control
\* back when it ends, or a batch script (npm.cmd), which run without CALL
\* takes control over: the commands of the block already read are still
\* run, the lines after it are not.
NpmKinds == {"program", "batch"}

\* The script is started: the directory is there or not, and ERRORLEVEL is
\* what the last command of the console left.
ScriptInit ==
  /\ ServerAtRest
  /\ view = "kpi"
  /\ ClientAtRest
  /\ TextAtRest
  /\ DeployAtRest
  /\ spc = "start"
  /\ nodeModules \in BOOLEAN
  /\ npmKind \in NpmKinds
  /\ errorlevel \in ExitCodes
  /\ expanded = 0
  /\ returns = TRUE
  /\ installed = -1
  /\ launched = FALSE
  /\ exitCode = -1

\* if not exist "node_modules" ( ... ): cmd.exe reads the statement to its
\* closing parenthesis and puts the value ERRORLEVEL has now for every
\* %errorlevel% in it, then tests the directory.
ReadInstallBlock ==
  /\ spc = "start"
  /\ expanded' = errorlevel
  /\ spc' = IF nodeModules THEN "banner" ELSE "install"
  /\ UNCHANGED <<nodeModules, npmKind, errorlevel, returns, installed, launched,
                 exitCode>>
  /\ UNCHANGED nonScriptVars

\* npm install
NpmInstall ==
  /\ spc = "install"
  /\ \E code \in ExitCodes :
       /\ installed' = code
       /\ errorlevel' = code
       /\ IF code = 0 THEN nodeModules' = TRUE ELSE nodeModules' \in BOOLEAN
  /\ returns' = (npmKind = "program")
  /\ spc' = "check"
  /\ UNCHANGED <<npmKind, expanded, launched, exitCode>>
  /\ UNCHANGED nonScriptVars

\* The condition of if %errorlevel% neq 0, after the expansion.
ErrorlevelTest(atRead, now) == atRead # 0

\* if %errorlevel% neq 0 ( ... ) and the end of the block.
CheckInstall ==
  /\ spc = "check"
  /\ IF ErrorlevelTest(expanded, errorlevel)
     THEN spc' = "failed" /\ UNCHANGED exitCode
     ELSE IF returns
     THEN spc' = "banner" /\ UNCHANGED exitCode
     ELSE spc' = "ended" /\ exitCode' = errorlevel
  /\ UNCHANGED <<nodeModules, npmKind, errorlevel, expanded, returns, installed,
                 launched>>
  /\ UNCHANGED nonScriptVars

\* echo Failed to install dependencies, pause, exit /b 1
FailAndExit ==
  /\ spc = "failed"
  /\ errorlevel' = 1
  /\ exitCode' = 1
  /\ spc' = "ended"
  /\ UNCHANGED <<nodeModules, npmKind, expanded, returns, installed, launched>>
  /\ UNCHANGED nonScriptVars

\* The four echo lines.
EchoBanner ==
  /\ spc = "banner"
  /\ spc' = "dev"
  /\ UNCHANGED <<nodeModules, npmKind, errorlevel, expanded, returns, installed,
                 launched, exitCode>>
  /\ UNCHANGED nonScriptVars

\* npm run dev: the development server is started.
NpmRunDev ==
  /\ spc = "dev"
  /\ launched' = TRUE
  /\ spc' = "serving"
  /\ UNCHANGED <<nodeModules, npmKind, errorlevel, expanded, returns, installed,
                 exitCode>>
  /\ UNCHANGED nonScriptVars

\* The development server ends, and the script with it.
DevServerEnds ==
  /\ spc = "serving"
  /\ \E code \in ExitCodes : errorlevel' = code /\ exitCode' = code
  /\ spc' = "ended"
  /\ UNCHANGED <<nodeModules, npmKind, expanded, returns, installed, launched>>
  /\ UNCHANGED nonScriptVars

ScriptNext ==
  \/ ReadInstallBlock
  \/ NpmInstall
  \/ CheckInstall
  \/ FailAndExit
  \/ EchoBanner
  \/ NpmRunDev
  \/ DevServerEnds

ScriptSpec == ScriptInit /\ [][ScriptNext]_vars

InstallFailed == installed > 0

\* C20: When node_modules is absent and npm install ends with a non-zero
\* exit code, the start script does not launch the development server and
\* ends with a non-zero exit code.
C20_FailedInstallHalts ==
  InstallFailed => (~launched /\ (spc = "ended" => exitCode > 0))

---------------------------------------------------------------------------
(* The deploy script                                                       *)

\* What cmd.exe finds for the command vercel: nothing, a program, or the
\* batch script npm puts on the path (vercel.cmd), which run without CALL
\* takes control over and does not hand it back to the script.
VercelKinds == {"missing", "program", "batch"}

\* What a successful npm install -g vercel leaves on the path.
InstalledKinds == {"program", "batch"}

DeployInit ==
  /\ ServerAtRest
  /\ view = "kpi"
  /\ ClientAtRest
  /\ TextAtRest
  /\ spc = "off"
  /\ nodeModules = FALSE
  /\ launched = FALSE
  /\ dpc = "start"
  /\ vercelKind \in VercelKinds
  /\ npmKind \in NpmKinds
  /\ errorlevel \in ExitCodes
  /\ expanded = 0
  /\ returns = TRUE
  /\ installed = -1
  /\ deployed = -1
  /\ report = "none"
  /\ exitCode = -1

\* vercel --version >nul 2>&1: a command that is not found leaves a non-zero
\* ERRORLEVEL, a program leaves its exit code, and a batch script ends the
\* deploy script with its own.
VercelVersion ==
  /\ dpc = "start"
  /\ CASE vercelKind = "missing" ->
            /\ errorlevel' \in ExitCodes \ {0}
            /\ dpc' = "probe"
            /\ UNCHANGED exitCode
       [] vercelKind = "program" ->
            /\ errorlevel' \in ExitCodes
            /\ dpc' = "probe"
            /\ UNCHANGED exitCode
       [] vercelKind = "batch" ->
            /\ \E code \in ExitCodes : errorlevel' = code /\ exitCode' = code
            /\ dpc' = "ended"
  /\ UNCHANGED <<spc, nodeModules, npmKind, expanded, returns, installed, launched>>
  /\ UNCHANGED <<vercelKind, deployed, report>>
  /\ UNCHANGED nonConsoleVars

\* if %errorlevel% neq 0 ( ... ): the statement is read to its closing
\* parenthesis, the inner if included, and the value ERRORLEVEL has now is
\* put for both %errorlevel%.
ReadProbeBlock ==
  /\ dpc = "probe"
  /\ expanded' = errorlevel
  /\ dpc' = IF ErrorlevelTest(errorlevel, errorlevel) THEN "install" ELSE "found"
  /\ UNCHANGED <<spc, nodeModules, npmKind, errorlevel, returns, installed,
                 launched, exitCode>>
  /\ UNCHANGED <<vercelKind, deployed, report>>
  /\ UNCHANGED nonConsoleVars

\* npm install -g vercel
NpmInstallVercel ==
  /\ dpc = "install"
  /\ \E code \in ExitCodes :
       /\ installed' = code
       /\ errorlevel' = code
       /\ IF code = 0 THEN vercelKind' \in InstalledKinds ELSE UNCHANGED vercelKind
  /\ returns' = (npmKind = "program")
  /\ dpc' = "check"
  /\ UNCHANGED <<spc, nodeModules, npmKind, expanded, launched, exitCode>>
  /\ UNCHANGED <<deployed, report>>
  /\ UNCHANGED nonConsoleVars

\* The inner if %errorlevel% neq 0 ( ... ) and the end of the outer block.
CheckVercelInstall ==
  /\ dpc = "check"
  /\ IF ErrorlevelTest(expanded, errorlevel)
     THEN dpc' = "failed" /\ UNCHANGED exitCode
     ELSE IF returns
     THEN dpc' = "found" /\ UNCHANGED exitCode
     ELSE dpc' = "ended" /\ exitCode' = errorlevel
  /\ UNCHANGED <<spc, nodeModules, npmKind, errorlevel, expanded, returns,
                 installed, launched>>
  /\ UNCHANGED <<vercelKind, deployed, report>>
  /\ UNCHANGED nonConsoleVars

\* echo Failed to install Vercel CLI ..., pause, exit /b 1
DeployFailAndExit ==
  /\ dpc = "failed"
  /\ errorlevel' = 1
  /\ exitCode' = 1
  /\ dpc' = "ended"
  /\ UNCHANGED <<spc, nodeModules, npmKind, expanded, returns, installed, launched>>
  /\ UNCHANGED <<vercelKind, deployed, report>>
  /\ UNCHANGED nonConsoleVars

\* echo Vercel CLI found, echo Deploying...
EchoFound ==
  /\ dpc = "found"
  /\ dpc' = "deploy"
  /\ UNCHANGED scriptVars
  /\ UNCHANGED <<vercelKind, deployed, report>>
  /\ UNCHANGED nonConsoleVars

\* vercel --prod
VercelProd ==
  /\ dpc = "deploy"
  /\ CASE vercelKind = "missing" ->
            /\ errorlevel' \in ExitCodes \ {0}
            /\ dpc' = "report"
            /\ UNCHANGED <<deployed, exitCode>>
       [] vercelKind = "program" ->
            /\ \E code \in ExitCodes : errorlevel' = code /\ deployed' = code
            /\ dpc' = "report"
            /\ UNCHANGED exitCode
       [] vercelKind = "batch" ->
            /\ \E code \in ExitCodes :
                 errorlevel' = code /\ deployed' = code /\ exitCode' = code
            /\ dpc' = "ended"
  /\ UNCHANGED <<spc, nodeModules, npmKind, expanded, returns, installed, launched>>
  /\ UNCHANGED <<vercelKind, report>>
  /\ UNCHANGED nonConsoleVars

\* The message of if %errorlevel% equ 0 ( ... ) else ( ... ), after the
\* expansion.
DeploymentReport(atRead) == IF atRead = 0 THEN "successful" ELSE "failed"

\* if %errorlevel% equ 0 ( ... ) else ( ... ): read after vercel --prod has
\* ended, so %errorlevel% is the deployment's exit code.
ReportDeployment ==
  /\ dpc = "report"
  /\ expanded' = errorlevel
  /\ report' = DeploymentReport(errorlevel)
  /\ dpc' = "pause"
  /\ UNCHANGED <<spc, nodeModules, npmKind, errorlevel, returns, installed,
                 launched, exitCode>>
  /\ UNCHANGED <<vercelKind, deployed>>
  /\ UNCHANGED nonConsoleVars

\* pause, and the end of the file.
DeployPause ==
  /\ dpc = "pause"
  /\ exitCode' = errorlevel
  /\ dpc' = "ended"
  /\ UNCHANGED <<spc, nodeModules, npmKind, errorlevel, expanded, returns,
                 installed, launched>>
  /\ UNCHANGED <<vercelKind, deployed, report>>
  /\ UNCHANGED nonConsoleVars

DeployNext ==
  \/ VercelVersion
  \/ ReadProbeBlock
  \/ NpmInstallVercel
  \/ CheckVercelInstall
  \/ DeployFailAndExit
  \/ EchoFound
  \/ VercelProd
  \/ ReportDeployment
  \/ DeployPause

DeploySpec == DeployInit /\ [][DeployNext]_vars

\* The script has ended and npm install -g vercel had run with this outcome.
EndedAfterInstall(ok) ==
  /\ dpc = "ended"
  /\ installed # -1
  /\ (installed = 0) = ok

\* C21: When the deployment CLI is missing the deploy script installs it; it
\* halts with exit code 1, without deploying, exactly when the installation
\* fails; when the installation succeeds it runs the production deployment
\* and reports success or failure by the deployment's exit code.
C21_DeployAfterInstall ==
  /\ EndedAfterInstall(FALSE) => (exitCode = 1 /\ deployed = -1)
  /\ EndedAfterInstall(TRUE) =>
       (deployed # -1 /\ report = DeploymentReport(deployed))

---------------------------------------------------------------------------
(* The two copies of analyzeBarcodes on the same content                   *)

\* An entry of the upload route's people_data, cut down to the fields of
\* the default route's PersonData.
CountOnly(person) ==
  [firstname |-> person.firstname,
   lastname |-> person.lastname,
   barcode_range_count |-> person.barcode_range_count]

\* The header of the analysed content holds the four columns the upload
\* route requires.
AllUploadColumns == Range(UploadRequiredColumns) \subseteq csvContent.fields

\* What each route's analyzeBarcodes returns for the content of the request:
\* the response of the route that ran, and the other route's result on the
\* same content.
UploadResult ==
  IF endpoint = "upload" THEN Body ELSE UploadAnalyzeBarcodes(csvContent, NoThrow)
DefaultResult ==
  IF endpoint = "default" THEN Body ELSE DefaultAnalyzeBarcodes(csvContent, NoThrow)

\* C22: For every content whose header holds the four upload columns, the
\* two routes' analyzeBarcodes both succeed or both fail, and on success the
\* default route's people_data is the upload route's with each entry cut
\* down to (firstname, lastname, barcode_range_count), in the same order,
\* with the same statistics.
C22_RoutesAgree ==
  (Analysed /\ AllUploadColumns) =>
    /\ UploadResult.success = DefaultResult.success
    /\ UploadResult.success =>
         /\ DefaultResult.data.people_data =
              MapSeq(UploadResult.data.people_data, CountOnly)
         /\ DefaultResult.data.statistics = UploadResult.data.statistics

---------------------------------------------------------------------------
(* The walk of calculateWorkPeriods, iteration by iteration                *)

\* One iteration of the for loop, at index i: walk holds periods and
\* currentPeriod as the iteration finds them.
WalkStepKeepEnd(sortedTimes, i, walk) ==
  IF TimeDiffExceeds30(parseTimeToMinutes(sortedTimes[i - 1]),
                       parseTimeToMinutes(sortedTimes[i]))
  THEN [periods |-> Append(walk.periods, ClosePeriod(walk.currentPeriod)),
        currentPeriod |-> NewPeriod(sortedTimes[i])]
  ELSE [periods |-> walk.periods,
        currentPeriod |-> [walk.currentPeriod EXCEPT !.barcode_count = @ + 1]]
WalkStep(sortedTimes, i, walk) ==
  IF TimeDiffExceeds30(parseTimeToMinutes(sortedTimes[i - 1]),
                       parseTimeToMinutes(sortedTimes[i]))
  THEN [periods |-> Append(walk.periods, ClosePeriod(walk.currentPeriod)),
        currentPeriod |-> NewPeriod(sortedTimes[i])]
  ELSE [periods |-> walk.periods,
        currentPeriod |-> [walk.currentPeriod EXCEPT !.end_time = sortedTimes[i],
                                                     !.barcode_count = @ + 1]]

\* periods and currentPeriod when the loop is about to visit index i
\* (i = Len(sortedTimes) + 1: when it has ended).
RECURSIVE WalkBefore(_, _)
WalkBefore(sortedTimes, i) ==
  IF i <= 2 THEN [periods |-> <<>>, currentPeriod |-> NewPeriod(sortedTimes[1])]
  ELSE WalkStep(sortedTimes, i - 1, WalkBefore(sortedTimes, i - 1))

\* The final push.
WalkEnd(sortedTimes) ==
  LET walk == WalkBefore(sortedTimes, Len(sortedTimes) + 1)
  IN  Append(walk.periods, ClosePeriod(walk.currentPeriod))

\* The sorted timestamps of the person at entry i of people_data.
SortedTimesOf(i) ==
  SortTimes(TimesOfKey(PersonKey(People[i].firstname, People[i].lastname), 1))

\* C23: for every person of a successful upload analysis the work_periods
\* split the person's sorted scans into consecutive runs: every period
\* counts at least one scan, the counts add up to barcode_range_count, each
\* period starts and ends at the first and last scan of its run, and
\* whenever the walk visits a timestamp the current period's end_time is
\* the timestamp visited before it.
C23_PeriodsPartitionScans ==
  (Succeeded /\ endpoint = "upload") =>
    \A i \in 1..Len(People) :
      LET sorted  == SortedTimesOf(i)
          periods == People[i].work_periods
      IN  /\ periods = WalkEnd(sorted)
          /\ \A j \in 1..Len(periods) :
               /\ periods[j].barcode_count >= 1
               /\ periods[j].start_time = sorted[ScansUpTo(periods, j - 1) + 1]
               /\ periods[j].end_time = sorted[ScansUpTo(periods, j)]
          /\ ScansUpTo(periods, Len(periods)) = People[i].barcode_range_count
          /\ \A k \in 2..Len(sorted) :
               WalkBefore(sorted, k).currentPeriod.end_time = sorted[k - 1]

\* A person with three scans in two periods: the walk went on with the
\* current period once and started a new one once.
C23_Witness ==
  /\ Succeeded /\ endpoint = "upload"
  /\ \E i \in 1..Len(People) :
       /\ People[i].barcode_range_count = 3
       /\ Len(People[i].work_periods) = 2

---------------------------------------------------------------------------
(* The loading flag and the requests in flight                             *)

\* C24: in either view, whenever at least one analysis request is still in
\* flight, isLoading is true, so the trigger buttons stay disabled until
\* every outstanding request has resolved; also when a second request was
\* started by selecting a file while the first was in flight.
C24_LoadingWhileInFlight == (Outstanding # {}) => isLoading

---------------------------------------------------------------------------
(* What the handlers of the KPI-aware view leave alone                     *)

\* The step changes the KPI map at one id only: it sets the entry of the KPI
\* in the form, or it removes an entry; every other id keeps its entry.
OneKpiChanged ==
  \E id \in DOMAIN kpiData \cup DOMAIN kpiData' :
    /\ \A other \in (DOMAIN kpiData \cup DOMAIN kpiData') \ {id} :
         /\ Has(kpiData, other)
         /\ Has(kpiData', other)
         /\ kpiData'[other] = kpiData[other]
    /\ \/ /\ FormShown
          /\ id = editingKpi.id
          /\ Has(kpiData', id)
          /\ kpiData'[id].id = id
       \/ /\ Has(kpiData, id)
          /\ ~Has(kpiData', id)

\* The step belongs to handleFileUpload or analyzeDefaultFile: a request is
\* sent or settled, or the flag or the error banner is set.
RequestHandlerStep ==
  requests' # requests \/ isLoading' # isLoading \/ error' # error

\* The step handles a failed response (a business failure or a rejection).
FailureHandled ==
  /\ \E i \in 1..MaxRequests : InFlight(i) /\ ~InFlight(i)'
  /\ Failed(lastResolved'.outcome)

\* C25: in the KPI-aware view the steps of Upload & Analyze and Use Default,
\* whatever their outcome, leave the KPI map unchanged, and a failed request
\* leaves the displayed analysis data unchanged; the KPI map changes only
\* by a form submit (the entry of one id is set) and by Delete KPI (the
\* entry of one id is removed), and such a step leaves every other id's
\* entry and the analysis data unchanged.
C25_KpiMapFrame ==
  [][view = "kpi" =>
       /\ RequestHandlerStep => kpiData' = kpiData
       /\ FailureHandled => analysisData' = analysisData
       /\ kpiData' # kpiData => (OneKpiChanged /\ analysisData' = analysisData)]_vars

\* Analysis data is displayed, the response handled last was a failure, one
\* person's KPI was deleted and another person's KPI is still in the map.
C25_Witness ==
  /\ view = "kpi"
  /\ analysisData # NoAnalysis
  /\ lastResolved.request # "none"
  /\ Failed(lastResolved.outcome)
  /\ \E a \in DOMAIN kpiLog, b \in DOMAIN kpiData :
       a # b /\ WasDeleted(a) /\ ~Has(kpiData, a) /\ WasSaved(b)

---------------------------------------------------------------------------
(* The form flag and the KPI in the form                                   *)

\* C26: in the KPI-aware view, whenever showKpiForm is true a KPI being
\* edited is set (editingKpi is not null), so the modal is on the page
\* whenever the flag is set, after any sequence of the Add KPI header
\* button, the rows' Add/Edit KPI buttons, Save, Cancel and Delete.
C26_FormFlagHasKpi == (view = "kpi" /\ showKpiForm) => editingKpi # NoKpi

---------------------------------------------------------------------------
(* Divisors                                                                *)

\* The divisor of the Avg per Hour card: analysisData.people_data.length.
AvgPerHourDivisor(data) == Len(data.people_data)

\* The total the chart's tooltip divides by:
\* people_data.reduce((a, b) => a + b.barcode_range_count, 0) || 0.
TooltipTotal(data) == TotalRanges(data.people_data, 1)

\* C27: every successful analysis response of either endpoint has a
\* non-empty people_data, total_people and total_ranges of at least 1 and
\* counts of at least 1, and a content without data rows is answered with a
\* failure; so the divisors of the server's average, of the page's mean of
\* barcodes_per_hour and of the tooltip's percentage are not zero.
C27_SuccessHasPeople ==
  /\ Succeeded =>
       /\ Len(People) >= 1
       /\ Stats.total_people >= 1
       /\ Stats.total_ranges >= 1
       /\ \A i \in 1..Len(People) : People[i].barcode_range_count >= 1
       /\ AvgPerHourDivisor(Body.data) # 0
       /\ TooltipTotal(Body.data) # 0
  /\ (Analysed /\ Len(Rows) = 0) => ~Body.success

\* A content whose header holds every required column and that has no data
\* row was analysed and answered with a failure.
C27_Witness ==
  /\ Analysed
  /\ AllUploadColumns
  /\ Len(csvContent.errors) = 0
  /\ Len(Rows) = 0
  /\ ~Body.success

====
